---- MODULE Spec2Model ----
(***************************************************************************)
(* Model of the bargaining / negotiation core of the career advisor        *)
(* (src/main.py): the turn-based simulator of page p5 and the round        *)
(* negotiation engine NegotiationModel, and the Rubinstein equilibrium     *)
(* calculators.                                                            *)
(*                                                                         *)
(* Numbers.  Python floats are modelled as exact rationals <<n, d>> with   *)
(* d > 0 in lowest terms; None is the empty tuple.  Salaries are counted   *)
(* in the unit of the forms' min_value (1,000,000 won), discount factors   *)
(* in hundredths (the sliders' step).                                      *)
(***************************************************************************)
EXTENDS Integers, Sequences, FiniteSets, TLC

VARIABLES
    neg_state,   \* st.session_state["neg_state"]: None or <<session record>>
    ev,          \* history: what the last run of page p5 did
    model,       \* the NegotiationModel object: None or <<NegotiationState>>
    eng_ev,      \* history: the last call on the engine and how it ended
    calc,        \* history: the last call of a Rubinstein calculator
    game,        \* a SalaryBargainingGame: its arguments, the object, the last call
    page,        \* st.session_state["page"]
    jc_result,   \* st.session_state["jc_result"]: None or <<result record>>
    job          \* history: the last run of page p2's form, or call of the fetch

simVars == <<neg_state, ev>>
engVars == <<model, eng_ev>>
calcVars == <<calc>>
gameVars == <<game>>
jobVars == <<page, jc_result, job>>
vars == <<neg_state, ev, model, eng_ev, calc, game, page, jc_result, job>>
\* What the operations of one component leave alone.
exceptSim == <<engVars, calcVars, gameVars, jobVars>>
exceptEng == <<simVars, calcVars, gameVars, jobVars>>
exceptCalc == <<simVars, engVars, gameVars, jobVars>>
exceptGame == <<simVars, engVars, calcVars, jobVars>>
exceptJob == <<simVars, engVars, calcVars, gameVars>>

(***************************************************************************)
(* Exact rational arithmetic                                               *)
(***************************************************************************)
\* RAdd, RMul, RLt, RMin and RMax bind each argument once (u \in {x}) before
\* using it, so that an argument given as an expression is evaluated a single
\* time wherever the operator is applied, inside ENABLED included.
None == <<>>

Abs(i) == IF i < 0 THEN -i ELSE i

RECURSIVE GCD(_, _)
GCD(a, b) == IF b = 0 THEN a ELSE GCD(b, a % b)

Norm(n, d) ==
    LET g == GCD(Abs(n), d)
    IN  IF g = 0 THEN <<0, 1>> ELSE <<n \div g, d \div g>>

R(i) == <<i, 1>>
Frac(n, d) == IF d < 0 THEN Norm(-n, -d) ELSE Norm(n, d)
\* Sums are taken on the integer and fractional parts apart, so that no
\* intermediate product is larger than the result's own numerator.
Sum(x, y) ==
    LET q == (x[1] \div x[2]) + (y[1] \div y[2])
        d == x[2] * y[2]
    IN  Norm(q * d + (x[1] % x[2]) * y[2] + (y[1] % y[2]) * x[2], d)
RAdd(x, y) == CHOOSE s \in {Sum(u, v) : u \in {x}, v \in {y}} : TRUE
RSub(x, y) == RAdd(x, <<-y[1], y[2]>>)
\* Products cancel across the two fractions first, for the same reason.
Product(x, y) ==
    LET g1 == GCD(Abs(x[1]), y[2])
        g2 == GCD(Abs(y[1]), x[2])
    IN  Norm((x[1] \div g1) * (y[1] \div g2), (x[2] \div g2) * (y[2] \div g1))
RMul(x, y) == CHOOSE p \in {Product(u, v) : u \in {x}, v \in {y}} : TRUE
RDiv(x, y) == RMul(x, IF y[1] < 0 THEN <<-y[2], -y[1]>> ELSE <<y[2], y[1]>>)
\* n1/d1 < n2/d2, by integer parts and then by the reciprocals of the
\* fractional parts, so that nothing is multiplied.
RECURSIVE Less(_, _, _, _)
Less(n1, d1, n2, d2) ==
    LET q1 == n1 \div d1
        q2 == n2 \div d2
        r1 == n1 % d1
        r2 == n2 % d2
    IN  IF q1 # q2 THEN q1 < q2
        ELSE IF r2 = 0 THEN FALSE
        ELSE IF r1 = 0 THEN TRUE
        ELSE Less(d2, r2, d1, r1)
RLt(x, y) == \E u \in {x}, v \in {y} : Less(u[1], u[2], v[1], v[2])
RLe(x, y) == ~RLt(y, x)
RMin(x, y) == CHOOSE m \in {IF RLe(u, v) THEN u ELSE v : u \in {x}, v \in {y}} : TRUE
RMax(x, y) == CHOOSE m \in {IF RLe(u, v) THEN v ELSE u : u \in {x}, v \in {y}} : TRUE
Half == <<1, 2>>

(***************************************************************************)
(* Page p5: the turn-based simulator                                       *)
(***************************************************************************)
MinSalary == 1          \* number_input min_value (1,000,000 won = 1 unit)
MaxMoney == 3           \* largest salary the model enumerates
MaxRoundsBound == 2     \* largest max_rounds the model enumerates
DeltaLo == 50           \* slider minimum 0.5, in hundredths
DeltaHi == 99           \* slider maximum 0.99, in hundredths

Money == MinSalary..MaxMoney
DeltaChoices == {DeltaLo, DeltaHi}
Movers == {"employer", "employee"}

\* S* = B + v_W (E - B), v_W = (1 - dR) / (1 - dE dR), v_W clamped to [0, 1].
\* Returns <<raised, S_star, v_W, 1 - v_W>>.
compute_rubinstein_salary(B, E, delta_E, delta_R) ==
    IF ~(RLt(R(0), delta_E) /\ RLt(delta_E, R(1))
         /\ RLt(R(0), delta_R) /\ RLt(delta_R, R(1)))
    THEN <<TRUE, None, None, None>>
    ELSE LET pie == RSub(E, B)
             v0  == RDiv(RSub(R(1), delta_R), RSub(R(1), RMul(delta_E, delta_R)))
             v_W == RMax(R(0), RMin(R(1), v0))
         IN  <<FALSE, RAdd(B, RMul(v_W, pie)), v_W, RSub(R(1), v_W)>>

compute_employer_offer_NoClamp(B, E, S_star, last_employee_offer) ==
    LET S_star_clamped == RMax(B, RMin(E, S_star))
    IN  IF last_employee_offer = None
        THEN S_star_clamped
        ELSE RAdd(last_employee_offer,
                  RMul(Half, RSub(S_star_clamped, last_employee_offer)))

compute_employer_offer(B, E, S_star, last_employee_offer) ==
    LET S_star_clamped == RMax(B, RMin(E, S_star))
    IN  IF last_employee_offer = None
        THEN S_star_clamped
        ELSE LET offer == RAdd(last_employee_offer,
                               RMul(Half, RSub(S_star_clamped, last_employee_offer)))
             IN  RMax(B, RMin(E, offer))

\* The dictionary stored at "새 협상 시작" (lines 816-834).
NewSession(B, E, delta_E, delta_R, max_rounds, first_mover) ==
    LET eq == compute_rubinstein_salary(R(B), R(E), delta_E, delta_R)
    IN  [B |-> R(B), E |-> R(E),
         delta_E |-> delta_E, delta_R |-> delta_R,
         S_star |-> eq[2], share_E |-> eq[3], share_R |-> eq[4],
         max_rounds |-> max_rounds, first_mover |-> first_mover,
         current_round |-> 1, turn |-> first_mover, status |-> "ongoing",
         last_employee_offer |-> None, last_employer_offer |-> None,
         final_salary |-> None]

StartRejected_Strict(B, E) == B > E

\* The form's check of the bargaining range (line 811).
StartRejected(B, E) == B >= E

\* The terminal branch of the page (line 867).
IsTerminalSuccessOnly(s) == s.status = "success"

IsTerminal(s) == s.status \in {"success", "failed"}

next_round_NoFail(s) == [s EXCEPT !.current_round = @ + 1]

next_round_Skip(s) ==
    LET s1 == [s EXCEPT !.current_round = @ + 2]
    IN  IF s1.current_round > s1.max_rounds
        THEN [s1 EXCEPT !.status = "failed"]
        ELSE s1

\* next_round(): one more round; past the budget the session has failed.
next_round(s) ==
    LET s1 == [s EXCEPT !.current_round = @ + 1]
    IN  IF s1.current_round > s1.max_rounds
        THEN [s1 EXCEPT !.status = "failed"]
        ELSE s1

ShowEmployerOffer_Unstored(s) == s

\* The employer branch up to its buttons: the offer is computed and stored.
ShowEmployerOffer(s) ==
    [s EXCEPT !.last_employer_offer =
        compute_employer_offer(s.B, s.E, s.S_star, s.last_employee_offer)]

\* A run of the page in which no widget fired (the run st.rerun() starts):
\* nothing is stored except the offer the employer branch displays.
Render(ns) ==
    IF ns = None THEN ns
    ELSE IF IsTerminal(ns[1]) THEN ns
    ELSE IF ns[1].turn = "employer" THEN <<ShowEmployerOffer(ns[1])>>
    ELSE ns

AcceptClick_KeepOngoing(s) ==
    LET s0 == ShowEmployerOffer(s)
    IN  [s0 EXCEPT !.final_salary = s0.last_employer_offer]

\* "수락" (lines 896-899).
AcceptClick(s) ==
    LET s0 == ShowEmployerOffer(s)
    IN  [s0 EXCEPT !.status = "success", !.final_salary = s0.last_employer_offer]

RejectClick_AlwaysHandOver(s) ==
    [next_round(ShowEmployerOffer(s)) EXCEPT !.turn = "employee"]

\* "거절하고 다음 라운드" (lines 901-906): st.rerun() ends the run, so a
\* failed session keeps its turn.
RejectClick(s) ==
    LET s1 == next_round(ShowEmployerOffer(s))
    IN  IF s1.status = "failed" THEN s1 ELSE [s1 EXCEPT !.turn = "employee"]

\* The firm's acceptance test of a worker proposal (line 926).
InRange_Strict(s, emp_offer) == RLt(s.B, R(emp_offer)) /\ RLt(R(emp_offer), s.E)

InRange(s, emp_offer) == RLe(s.B, R(emp_offer)) /\ RLe(R(emp_offer), s.E)

SendOffer_MovesTarget(s, emp_offer) ==
    LET s0 == [s EXCEPT !.last_employee_offer = R(emp_offer)]
    IN  IF InRange(s0, emp_offer)
        THEN [s0 EXCEPT !.status = "success", !.final_salary = R(emp_offer)]
        ELSE LET counter == compute_employer_offer(s0.B, s0.E, s0.S_star, R(emp_offer))
                 s1 == next_round([s0 EXCEPT !.last_employer_offer = counter,
                                             !.S_star = counter])
             IN  IF s1.status = "failed" THEN s1 ELSE [s1 EXCEPT !.turn = "employer"]

SendOffer_KeepTurn(s, emp_offer) ==
    LET s0 == [s EXCEPT !.last_employee_offer = R(emp_offer)]
    IN  IF InRange(s0, emp_offer)
        THEN [s0 EXCEPT !.status = "success", !.final_salary = R(emp_offer)]
        ELSE next_round([s0 EXCEPT !.last_employer_offer =
                             compute_employer_offer(s0.B, s0.E, s0.S_star, R(emp_offer))])

\* "제안하기" (lines 923-941).
SendOffer(s, emp_offer) ==
    LET s0 == [s EXCEPT !.last_employee_offer = R(emp_offer)]
    IN  IF InRange(s0, emp_offer)
        THEN [s0 EXCEPT !.status = "success", !.final_salary = R(emp_offer)]
        ELSE LET counter == compute_employer_offer(s0.B, s0.E, s0.S_star, R(emp_offer))
                 s1 == next_round([s0 EXCEPT !.last_employer_offer = counter])
             IN  IF s1.status = "failed" THEN s1 ELSE [s1 EXCEPT !.turn = "employer"]

\* History of the last run: the widget that fired, its input, the session
\* before the run, and whether st.error was shown.
Event(op, arg, pre, error) == [op |-> op, arg |-> arg, pre |-> pre, error |-> error]

\* "새 협상 시작" submitted (lines 810-835), then the rest of the run.
StartSession ==
    /\ UNCHANGED exceptSim
    /\ \E B \in Money, E \in Money, dE \in DeltaChoices, dR \in DeltaChoices,
       max_rounds \in 1..MaxRoundsBound, first_mover \in Movers :
        IF StartRejected(B, E)
        THEN /\ neg_state' = Render(neg_state)
             /\ ev' = Event("start", <<B, E>>, None, TRUE)
        ELSE /\ neg_state' = Render(<<NewSession(B, E, Frac(dE, 100), Frac(dR, 100),
                                                  max_rounds, first_mover)>>)
             /\ ev' = Event("start", <<B, E>>, None, FALSE)

Accept ==
    /\ neg_state # None
    /\ ~IsTerminal(neg_state[1])
    /\ neg_state[1].turn = "employer"
    /\ neg_state' = Render(<<AcceptClick(neg_state[1])>>)
    /\ ev' = Event("accept", <<>>, neg_state, FALSE)
    /\ UNCHANGED exceptSim

Reject ==
    /\ neg_state # None
    /\ ~IsTerminal(neg_state[1])
    /\ neg_state[1].turn = "employer"
    /\ neg_state' = Render(<<RejectClick(neg_state[1])>>)
    /\ ev' = Event("reject", <<>>, neg_state, FALSE)
    /\ UNCHANGED exceptSim

Propose ==
    /\ neg_state # None
    /\ ~IsTerminal(neg_state[1])
    /\ neg_state[1].turn # "employer"
    /\ \E emp_offer \in Money :
        /\ neg_state' = Render(<<SendOffer(neg_state[1], emp_offer)>>)
        /\ ev' = Event("propose", <<emp_offer>>, neg_state, FALSE)
    /\ UNCHANGED exceptSim

\* "새 협상 시작하기" of the terminal branch (lines 873-875).
ResetTerminal ==
    /\ neg_state # None
    /\ IsTerminal(neg_state[1])
    /\ neg_state' = None
    /\ ev' = Event("reset", <<>>, None, FALSE)
    /\ UNCHANGED exceptSim

\* "초기 설정으로 돌아가기" (lines 945-947), reached only by an ongoing session.
ResetOngoing ==
    /\ neg_state # None
    /\ ~IsTerminal(neg_state[1])
    /\ neg_state' = None
    /\ ev' = Event("reset", <<>>, None, FALSE)
    /\ UNCHANGED exceptSim

SimInit ==
    /\ neg_state = None
    /\ ev = Event("init", <<>>, None, FALSE)

EngInitIdle ==
    /\ model = None
    /\ eng_ev = [op |-> "none", args |-> None, exc |-> "none", pre |-> None, ret |-> None]

CalcIdle ==
    calc = [fn |-> "none", args |-> None, exc |-> "none", value |-> None, shown |-> None,
            stored |-> None, prior |-> None]

GameIdle ==
    game = [phase |-> "none", args |-> None, self |-> None, last_mover |-> None,
            path |-> None, query |-> None, exc |-> "none", ret |-> None]

\* No form of page p2 submitted yet, in the program main.py.
NoJob == [op |-> "none", program |-> "main", args |-> None, responses |-> None,
          exc |-> "none", calls |-> 0, ret |-> None, prior |-> None]

JobIdle ==
    /\ page = "p2"
    /\ jc_result = None
    /\ job = NoJob

Init == SimInit /\ EngInitIdle /\ CalcIdle /\ GameIdle /\ JobIdle

Next ==
    \/ StartSession
    \/ Accept
    \/ Reject
    \/ Propose
    \/ ResetTerminal
    \/ ResetOngoing

Spec == Init /\ [][Next]_vars

\* One session played to its end: the form starts a session when none is
\* stored, and the user then keeps answering with the buttons of the turn.
StartFresh == neg_state = None /\ StartSession

SessionNext ==
    \/ StartFresh
    \/ Accept
    \/ Reject
    \/ Propose

SpecSession == Init /\ [][SessionNext]_vars /\ WF_vars(Accept \/ Reject \/ Propose)

(***************************************************************************)
(* NegotiationModel: the round negotiation engine                          *)
(***************************************************************************)
MinGridK == 9           \* smallest S, B the model enumerates, in 500s
MaxGridK == 12          \* largest S, B the model enumerates, in 500s
MaxTotalRounds == 2     \* largest total_rounds the model enumerates

SalaryGrid == {500 * k : k \in MinGridK..MaxGridK}
LongNegotiation == 7    \* a total_rounds long enough for the smallest step
TotalRoundsChoices == (0..MaxTotalRounds) \cup {LongNegotiation}
DeltaDefaults == {Frac(95, 100), Frac(1, 10)}
MaxObserved == 2        \* most employer offers observed by one engine
EmployerOffers == {3500, 5000, 8000}

DEFAULT_E_BY_FIELD ==
    [it_dev |-> 9000, medical |-> 12000, driver |-> 6000,
     service |-> 5000, manufacturing |-> 7000]

\* A caller-supplied E_table.
CustomETable == [service |-> 5500, consulting |-> 6500]

FieldNames == {"service", "driver", "consulting", "astronaut"}
ETableChoices == {None, <<CustomETable>>}
FirstMoverInputs == {"employee", "employer", "Employer", "EMPLOYEE", "boss"}

\* str.lower() on the strings the model passes.
lower(s) ==
    CASE s = "Employer" -> "employer"
      [] s = "EMPLOYEE" -> "employee"
      [] OTHER -> s

ResolveTable_IgnoreCustom(E_table) == DEFAULT_E_BY_FIELD

\* E_table defaults to DEFAULT_E_BY_FIELD (lines 103-104).
ResolveTable(E_table) == IF E_table = None THEN DEFAULT_E_BY_FIELD ELSE E_table[1]

\* NegotiationState.pi
pi(s) == RSub(s.E_max, s.B)

target_share_NoPieCheck(s) ==
    IF pi(s) = R(0) THEN <<"ZeroDivisionError", None>>
    ELSE <<"none", RDiv(RSub(s.S_target, s.B), pi(s))>>

\* NegotiationState.target_share(): <<exception, x>>
target_share(s) ==
    IF RLe(pi(s), R(0)) THEN <<"ValueError", None>>
    ELSE <<"none", RDiv(RSub(s.S_target, s.B), pi(s))>>

ShareFeasible_NoLower(x) == RLe(x, R(1))

\* 0.0 <= x <= 1.0 (line 128)
ShareFeasible(x) == RLe(R(0), x) /\ RLe(x, R(1))

\* NegotiationModel.__init__: <<exception, self.state>>; self.state stays
\* unassigned (None) when the constructor raises.
NegotiationModel_init(S, B, field_name, first_mover, total_rounds, E_table, delta_E_default, delta_R_default) ==
    LET fm == lower(first_mover)
        table == ResolveTable(E_table)
    IN  IF fm \notin {"employee", "employer"} THEN <<"ValueError", None>>
        ELSE IF field_name \notin DOMAIN table THEN <<"KeyError", None>>
        ELSE LET state == [S_target |-> R(S), B |-> R(B),
                           E_max |-> R(table[field_name]),
                           field_name |-> field_name, first_mover |-> fm,
                           total_rounds |-> total_rounds,
                           delta_E |-> delta_E_default,
                           delta_R |-> delta_R_default,
                           delta_E_hat |-> delta_E_default,
                           current_round |-> 1,
                           history_employee |-> <<>>,
                           history_employer |-> <<>>]
                 x == target_share(state)
             IN  IF x[1] # "none" THEN <<x[1], None>>
                 ELSE IF ~ShareFeasible(x[2]) THEN <<"ValueError", None>>
                 ELSE <<"none", <<state>>>>

\* History of the last engine call: the call, its arguments, the exception.
EngEvent(op, args, exc) == [op |-> op, args |-> args, exc |-> exc, pre |-> None, ret |-> None]

\* History of a call on a constructed engine: the state before it and the
\* value it returned.
EngCall(op, args, pre, ret) == [op |-> op, args |-> args, exc |-> "none", pre |-> pre, ret |-> ret]

\* A caller constructs an engine: __init__ runs once, on the new object, and
\* the object exists only if it returns.
Construct ==
    /\ model = None
    /\ eng_ev.op = "none"
    /\ \E S \in SalaryGrid, B \in SalaryGrid, field_name \in FieldNames,
          first_mover \in FirstMoverInputs, total_rounds \in TotalRoundsChoices,
          E_table \in ETableChoices, delta_E_default \in DeltaDefaults :
        LET r == NegotiationModel_init(S, B, field_name, first_mover, total_rounds,
                                       E_table, delta_E_default, Frac(95, 100))
        IN  /\ model' = r[2]
            /\ eng_ev' = EngEvent("init",
                                  [S |-> S, B |-> B, field_name |-> field_name,
                                   first_mover |-> first_mover,
                                   total_rounds |-> total_rounds,
                                   E_table |-> E_table,
                                   delta_E_default |-> delta_E_default],
                                  r[1])
    /\ UNCHANGED exceptEng

ratio_to_target_NoFloor(s, offer) ==
    LET diff == RSub(s.S_target, s.B)
        num  == RSub(offer, s.B)
    IN  IF RLt(R(0), diff)
        THEN RMin(RDiv(num, diff), Frac(3, 2))
        ELSE IF RLt(R(0), num) THEN Frac(3, 2) ELSE num

\* (offer - B) / max(S - B, 1e-9), clamped to [0, 1.5] (lines 147-149).
\* Every positive difference the model enumerates is far above 1e-9; with
\* the denominator 1e-9 the quotient of such a difference is 0 or beyond
\* the clamp.
ratio_to_target(s, offer) ==
    LET diff == RSub(s.S_target, s.B)
        num  == RSub(offer, s.B)
    IN  IF RLt(R(0), diff)
        THEN RMax(R(0), RMin(RDiv(num, diff), Frac(3, 2)))
        ELSE IF RLt(R(0), num) THEN Frac(3, 2) ELSE R(0)

observe_employer_offer_Clamped(s, offer) ==
    LET kept == RMax(s.B, RMin(s.E_max, offer))
        closeness == RMin(ratio_to_target(s, kept), R(1))
        target_delta_R == RSub(R(1), RMul(Half, closeness))
        target_delta_E_hat == RSub(R(1), RMul(Frac(3, 10), closeness))
    IN  [s EXCEPT !.history_employer = Append(@, kept),
                  !.delta_R = RAdd(RMul(Frac(7, 10), @), RMul(Frac(3, 10), target_delta_R)),
                  !.delta_E_hat = RAdd(RMul(Frac(8, 10), @),
                                       RMul(Frac(2, 10), target_delta_E_hat))]

\* NegotiationModel.observe_employer_offer
observe_employer_offer(s, offer) ==
    LET closeness == RMin(ratio_to_target(s, offer), R(1))
        target_delta_R == RSub(R(1), RMul(Half, closeness))
        target_delta_E_hat == RSub(R(1), RMul(Frac(3, 10), closeness))
    IN  [s EXCEPT !.history_employer = Append(@, offer),
                  !.delta_R = RAdd(RMul(Frac(7, 10), @), RMul(Frac(3, 10), target_delta_R)),
                  !.delta_E_hat = RAdd(RMul(Frac(8, 10), @),
                                       RMul(Frac(2, 10), target_delta_E_hat))]

\* NegotiationState.remaining_rounds
remaining_rounds(s) ==
    LET r == s.total_rounds - s.current_round + 1
    IN  IF r > 0 THEN r ELSE 0

current_player_FirmOdd(s) ==
    IF s.current_round % 2 = 1 THEN "employer" ELSE "employee"

\* NegotiationModel.current_player
current_player(s) ==
    IF s.first_mover = "employee"
    THEN IF s.current_round % 2 = 1 THEN "employee" ELSE "employer"
    ELSE IF s.current_round % 2 = 1 THEN "employer" ELSE "employee"

step_ratio_Unclamped(s) ==
    RAdd(RMul(Half, RSub(R(1), s.delta_E)), RMul(Half, Frac(1, remaining_rounds(s))))

step_ratio_FromEstimate(s) ==
    LET urgency == RSub(R(1), s.delta_E_hat)
        round_factor == Frac(1, remaining_rounds(s))
        raw == RAdd(RMul(Half, urgency), RMul(Half, round_factor))
    IN  RMax(Frac(1, 10), RMin(raw, Frac(9, 10)))

\* step_ratio of _suggest_employee_offer (lines 194-201)
step_ratio(s) ==
    LET urgency == RSub(R(1), s.delta_E)
        round_factor == Frac(1, remaining_rounds(s))
        raw == RAdd(RMul(Half, urgency), RMul(Half, round_factor))
    IN  RMax(Frac(1, 10), RMin(raw, Frac(9, 10)))

suggest_employee_offer_FromFloor(s) ==
    IF remaining_rounds(s) <= 0 THEN s.S_target
    ELSE LET offer == RAdd(s.B, RMul(step_ratio(s), RSub(s.S_target, s.B)))
         IN  RMax(s.B, RMin(offer, s.E_max))

\* NegotiationModel._suggest_employee_offer
suggest_employee_offer(s) ==
    IF remaining_rounds(s) <= 0 THEN s.S_target
    ELSE LET last_emp_offer == IF s.history_employer # <<>>
                               THEN s.history_employer[Len(s.history_employer)]
                               ELSE s.B
             gap_to_target == RSub(s.S_target, last_emp_offer)
             offer == RAdd(last_emp_offer, RMul(step_ratio(s), gap_to_target))
         IN  RMax(s.B, RMin(offer, s.E_max))

AdvanceToEmployee_Unbounded(s) ==
    IF current_player(s) # "employee" THEN [s EXCEPT !.current_round = @ + 1] ELSE s

\* The while loop of next_employee_offer (lines 226-227).
RECURSIVE AdvanceToEmployee(_)
AdvanceToEmployee(s) ==
    IF current_player(s) # "employee" /\ s.current_round <= s.total_rounds
    THEN AdvanceToEmployee([s EXCEPT !.current_round = @ + 1])
    ELSE s

next_employee_offer_Rewind(s, employer_offer) ==
    LET s1 == IF employer_offer # None
              THEN observe_employer_offer(s, employer_offer[1]) ELSE s
        s2 == AdvanceToEmployee(s1)
    IN  IF s2.current_round > s2.total_rounds
        THEN <<[s2 EXCEPT !.current_round = 1], s2.S_target>>
        ELSE LET offer == suggest_employee_offer(s2)
             IN  <<[s2 EXCEPT !.history_employee = Append(@, offer),
                              !.current_round = @ + 1], offer>>

\* NegotiationModel.next_employee_offer: <<state after, returned offer>>
next_employee_offer(s, employer_offer) ==
    LET s1 == IF employer_offer # None
              THEN observe_employer_offer(s, employer_offer[1]) ELSE s
        s2 == AdvanceToEmployee(s1)
    IN  IF s2.current_round > s2.total_rounds
        THEN <<s2, s2.S_target>>
        ELSE LET offer == suggest_employee_offer(s2)
             IN  <<[s2 EXCEPT !.history_employee = Append(@, offer),
                              !.current_round = @ + 1], offer>>

\* A caller reports an employer offer.
Observe ==
    /\ model # None
    /\ Len(model[1].history_employer) < MaxObserved
    /\ \E offer \in EmployerOffers :
        /\ model' = <<observe_employer_offer(model[1], R(offer))>>
        /\ eng_ev' = EngCall("observe", <<R(offer)>>, model, None)
    /\ UNCHANGED exceptEng

\* A caller asks for the next suggestion, with or without an employer offer.
NextOffer ==
    /\ model # None
    /\ \E employer_offer \in {None} \cup {<<R(o)>> : o \in EmployerOffers} :
        /\ employer_offer # None => Len(model[1].history_employer) < MaxObserved
        /\ LET r == next_employee_offer(model[1], employer_offer)
           IN  /\ model' = <<r[1]>>
               /\ eng_ev' = EngCall("next", employer_offer, model, r[2])
    /\ UNCHANGED exceptEng

EngInit == Init

EngNext ==
    \/ Construct
    \/ Observe
    \/ NextOffer

SpecEngine == EngInit /\ [][EngNext]_vars

(***************************************************************************)
(* The Rubinstein calculators                                              *)
(***************************************************************************)
MaxCalcMoney == 3       \* salaries given to a calculator: 0 .. MaxCalcMoney
CalcDeltaSteps == 4     \* discount factors given: k / CalcDeltaSteps, k = 0 .. CalcDeltaSteps
CalcMoney == 0..MaxCalcMoney
CalcDeltas == {Frac(k, CalcDeltaSteps) : k \in 0..CalcDeltaSteps}

\* The values the form of page p4 starts with (in won).
DefaultMinSalary == 50000000
DefaultMaxSalary == 80000000
DefaultDeltaWorker == Frac(95, 100)
DefaultDeltaFirm == Frac(90, 100)

share_worker_Swapped(delta_worker, delta_firm) ==
    LET share == RDiv(RSub(R(1), delta_worker), RSub(R(1), RMul(delta_worker, delta_firm)))
    IN  RMax(R(0), RMin(R(1), share))

share_worker_NoCrossTerm(delta_worker, delta_firm) ==
    LET share == RDiv(RSub(R(1), delta_firm), RSub(Frac(5, 4), delta_worker))
    IN  RMax(R(0), RMin(R(1), share))

share_worker_EvenSplit(delta_worker, delta_firm) ==
    IF delta_worker = delta_firm
    THEN Half
    ELSE RMax(R(0), RMin(R(1), RDiv(RSub(R(1), delta_firm),
                                    RSub(R(1), RMul(delta_worker, delta_firm)))))

\* share_worker of compute_rubinstein_equilibrium (lines 469-470).
share_worker(delta_worker, delta_firm) ==
    LET share == RDiv(RSub(R(1), delta_firm), RSub(R(1), RMul(delta_worker, delta_firm)))
    IN  RMax(R(0), RMin(R(1), share))

ValidDelta(d) == RLt(R(0), d) /\ RLt(d, R(1))

compute_rubinstein_equilibrium_WholeCeiling(min_salary, max_salary, delta_worker, delta_firm) ==
    IF \/ RLe(min_salary, R(0)) \/ RLe(max_salary, R(0))
       \/ RLe(max_salary, min_salary)
       \/ ~ValidDelta(delta_worker) \/ ~ValidDelta(delta_firm)
    THEN [exc |-> "ValueError", value |-> None]
    ELSE LET share == share_worker(delta_worker, delta_firm)
             salary_worker == RAdd(min_salary, RMul(share, max_salary))
         IN  [exc |-> "none",
              value |-> [pie |-> RSub(max_salary, min_salary),
                         share_worker |-> share,
                         share_firm |-> RSub(R(1), share),
                         salary_worker |-> salary_worker,
                         surplus_firm |-> RSub(max_salary, salary_worker)]]

compute_rubinstein_equilibrium(min_salary, max_salary, delta_worker, delta_firm) ==
    IF \/ RLe(min_salary, R(0)) \/ RLe(max_salary, R(0))
       \/ RLe(max_salary, min_salary)
       \/ ~ValidDelta(delta_worker) \/ ~ValidDelta(delta_firm)
    THEN [exc |-> "ValueError", value |-> None]
    ELSE LET pie == RSub(max_salary, min_salary)
             share == share_worker(delta_worker, delta_firm)
             salary_worker == RAdd(min_salary, RMul(share, pie))
         IN  [exc |-> "none",
              value |-> [pie |-> pie,
                         share_worker |-> share,
                         share_firm |-> RSub(R(1), share),
                         salary_worker |-> salary_worker,
                         surplus_firm |-> RSub(max_salary, salary_worker)]]

\* Python's round(x) for x >= 0: the nearest integer, a tie going to the even one.
round(x) ==
    LET q == x[1] \div x[2]
        r == x[1] % x[2]
    IN  IF 2 * r < x[2] THEN q
        ELSE IF 2 * r > x[2] THEN q + 1
        ELSE IF q % 2 = 0 THEN q ELSE q + 1

\* The number format_currency prints: int(round(x)), then grouped by commas.
format_currency(x) == round(x)

\* History of a calculator call: the function, its arguments, the exception
\* it raised or "none", the value it returned, the number the page printed,
\* and st.session_state["initial_offer_result"] afterwards and before.
CalcCall(fn, args, exc, value, shown, stored) ==
    [fn |-> fn, args |-> args, exc |-> exc, value |-> value, shown |-> shown,
     stored |-> stored, prior |-> None]

After(before, call) == [call EXCEPT !.prior = before.stored]

\* What the second p4 branch does with the form's values (lines 1224-1253).
InitialOffer(min_salary, max_salary, delta_worker, delta_firm) ==
    LET init_res == compute_rubinstein_equilibrium(min_salary, max_salary,
                                                   delta_worker, delta_firm)
    IN  CalcCall("equilibrium", <<min_salary, max_salary, delta_worker, delta_firm>>,
                 init_res.exc, init_res.value,
                 IF init_res.exc = "none"
                 THEN <<format_currency(init_res.value.salary_worker)>> ELSE None,
                 IF init_res.exc = "none" THEN <<init_res.value>> ELSE None)

Eps == Frac(1, 1000000000)             \* 1e-9
NearOne == Frac(999999999, 1000000000) \* a discount factor that makes v_W within 1e-9 of 1

recovered_floor_Mirrored(S_target, E_max, v_W) ==
    RSub(S_target, RSub(E_max, S_target))

recovered_floor_Undivided(S_target, E_max, v_W) ==
    RSub(S_target, RMul(v_W, E_max))

\* B of compute_spe_from_target (line 994).
recovered_floor(S_target, E_max, v_W) ==
    RDiv(RSub(S_target, RMul(v_W, E_max)), RSub(R(1), v_W))

Infeasible_AllowsNonPositive(B, S_target, E_max) ==
    RLe(S_target, B) \/ RLt(E_max, S_target)

\* The consistency checks of compute_spe_from_target (lines 996-1002).
Infeasible(B, S_target, E_max) ==
    RLe(S_target, B) \/ RLt(E_max, S_target) \/ RLe(B, R(0))

\* compute_spe_from_target of the first p4 branch.
compute_spe_from_target(S_target, E_max, delta_worker, delta_firm) ==
    IF RLe(S_target, R(0)) \/ RLe(E_max, R(0))
    THEN [exc |-> "ValueError", value |-> None]
    ELSE IF ~(ValidDelta(delta_worker) /\ ValidDelta(delta_firm))
    THEN [exc |-> "ValueError", value |-> None]
    ELSE LET v0 == RDiv(RSub(R(1), delta_firm),
                        RSub(R(1), RMul(delta_worker, delta_firm)))
             v_W == RMax(R(0), RMin(R(1), v0))
             denom == RSub(R(1), v_W)
         IN  IF RLt(RMax(denom, RSub(R(0), denom)), Eps)
             THEN [exc |-> "ValueError", value |-> None]
             ELSE LET B == recovered_floor(S_target, E_max, v_W)
                  IN  IF Infeasible(B, S_target, E_max)
                      THEN [exc |-> "ValueError", value |-> None]
                      ELSE LET share == RDiv(RSub(S_target, B), RSub(E_max, B))
                           IN  [exc |-> "none",
                                value |-> [B |-> B,
                                           E |-> E_max,
                                           S_target |-> S_target,
                                           delta_worker |-> delta_worker,
                                           delta_firm |-> delta_firm,
                                           share_worker |-> share,
                                           share_firm |-> RSub(R(1), share),
                                           worker_surplus |-> RSub(S_target, B),
                                           firm_surplus |-> RSub(E_max, S_target),
                                           initial_offer |-> S_target]]

\* A result an earlier submission of the form left behind.
EarlierResult == compute_spe_from_target(R(2), R(3), Half, Half).value

\* The argument lists a calculator is given: every combination of the small
\* values, the values the form of the second p4 branch starts with, and one
\* with a worker's discount factor next to 1.
CalcInputs ==
    {<<R(B), R(E), dw, df>> : B \in CalcMoney, E \in CalcMoney,
                              dw \in CalcDeltas, df \in CalcDeltas}
    \cup {<<R(DefaultMinSalary), R(DefaultMaxSalary), DefaultDeltaWorker, DefaultDeltaFirm>>}
    \cup {<<R(1), R(2), NearOne, Half>>}

\* compute_rubinstein_equilibrium applied to the given values, as page p4 does.
CallEquilibrium ==
    /\ calc.fn = "none"
    /\ calc' = After(calc, InitialOffer(calc.args[1], calc.args[2],
                                        calc.args[3], calc.args[4]))
    /\ UNCHANGED exceptCalc

\* compute_rubinstein_salary applied to the given values.
CallRubinsteinSalary ==
    /\ calc.fn = "none"
    /\ LET B == calc.args[1]
           E == calc.args[2]
           res == compute_rubinstein_salary(B, E, calc.args[3], calc.args[4])
       IN  calc' = After(calc, CalcCall("salary", calc.args,
                            IF res[1] THEN "ValueError" ELSE "none",
                            IF res[1] THEN None
                            ELSE [pie |-> RSub(E, B),
                                  share_worker |-> res[3],
                                  share_firm |-> res[4],
                                  salary_worker |-> res[2],
                                  surplus_firm |-> RSub(E, res[2])],
                            None, calc.stored))
    /\ UNCHANGED exceptCalc

\* The form of the first p4 branch submitted (lines 1069-1080): the values
\* are S_target, E_max, delta_worker, delta_firm.
SubmitSpeForm ==
    /\ calc.fn = "none"
    /\ LET init_res == compute_spe_from_target(calc.args[1], calc.args[2],
                                               calc.args[3], calc.args[4])
       IN  calc' = After(calc, CalcCall("inverse", calc.args, init_res.exc,
                                        init_res.value, None,
                                        IF init_res.exc = "none"
                                        THEN <<init_res.value>> ELSE None))
    /\ UNCHANGED exceptCalc

\* One call of a calculator on values still to be chosen, with or without
\* an earlier stored result.
CalcInit ==
    /\ SimInit
    /\ EngInitIdle
    /\ GameIdle
    /\ JobIdle
    /\ \E args \in CalcInputs, stored \in {None, <<EarlierResult>>} :
         calc = CalcCall("none", args, "none", None, None, stored)

CalcNext ==
    \/ CallEquilibrium
    \/ CallRubinsteinSalary
    \/ SubmitSpeForm

SpecCalc == CalcInit /\ [][CalcNext]_vars

(***************************************************************************)
(* SalaryBargainingGame: the equilibrium path                              *)
(***************************************************************************)
MaxPathMoney == 3       \* B, S, E given to a game: 0 .. MaxPathMoney
MaxHorizon == 3         \* horizon given to a game: 0 .. MaxHorizon
PathMoney == 0..MaxPathMoney
PathDeltas == {R(0), Frac(1, 3), Half, R(1), Frac(3, 2)}

\* __post_init__: TRUE when it raises ValueError.
post_init_fails(a) ==
    \/ ~(RLt(a.B, a.S) /\ RLe(a.S, a.E))
    \/ ~(/\ RLt(R(0), a.delta_e) /\ RLe(a.delta_e, R(1))
         /\ RLt(R(0), a.delta_r) /\ RLe(a.delta_r, R(1)))

\* SalaryBargainingGame.x_target over SalaryBargainingGame.pie
x_target(self) == RDiv(RSub(self.S, self.B), RSub(self.E, self.B))

RoundState(round_index, proposer, W_e, W_r) ==
    [round_index |-> round_index, proposer |-> proposer, W_e |-> W_e, W_r |-> W_r]

previous_round_Undiscounted(self, later) ==
    IF later.proposer = "employee"
    THEN RoundState(later.round_index - 1, "employer", later.W_e, RSub(R(1), later.W_e))
    ELSE RoundState(later.round_index - 1, "employee", RSub(R(1), later.W_r), later.W_r)

previous_round_OwnDiscount(self, later) ==
    IF later.proposer = "employee"
    THEN LET W_r_prev == RSub(R(1), RMul(self.delta_r, later.W_e))
         IN  RoundState(later.round_index - 1, "employer", RSub(R(1), W_r_prev), W_r_prev)
    ELSE LET W_e_prev == RSub(R(1), RMul(self.delta_e, later.W_r))
         IN  RoundState(later.round_index - 1, "employee", W_e_prev, RSub(R(1), W_e_prev))

\* One pass of the loop of compute_equilibrium_path (lines 1375-1394): the
\* round before `later`.
previous_round(self, later) ==
    IF later.proposer = "employee"
    THEN LET W_r_prev == RSub(R(1), RMul(self.delta_e, later.W_e))
         IN  RoundState(later.round_index - 1, "employer", RSub(R(1), W_r_prev), W_r_prev)
    ELSE LET W_e_prev == RSub(R(1), RMul(self.delta_r, later.W_r))
         IN  RoundState(later.round_index - 1, "employee", W_e_prev, RSub(R(1), W_e_prev))

\* The list `states` after `steps` passes of the loop, newest round last
\* appended: states[1] is round 0.
RECURSIVE states_after(_, _, _)
states_after(self, last_mover, steps) ==
    IF steps = 0
    THEN <<RoundState(0, last_mover, x_target(self), RSub(R(1), x_target(self)))>>
    ELSE LET before == states_after(self, last_mover, steps - 1)
         IN  Append(before, previous_round(self, before[Len(before)]))

\* states.sort(key=round_index): insertion into a list sorted by round_index,
\* an equal key staying behind the ones already there (the sort is stable).
RECURSIVE insert_sorted(_, _)
insert_sorted(sorted, st) ==
    IF sorted = <<>> THEN <<st>>
    ELSE IF st.round_index < sorted[1].round_index
    THEN <<st>> \o sorted
    ELSE <<sorted[1]>> \o insert_sorted(Tail(sorted), st)

RECURSIVE sort_by_round_index(_)
sort_by_round_index(states) ==
    IF states = <<>> THEN <<>>
    ELSE insert_sorted(sort_by_round_index(SubSeq(states, 1, Len(states) - 1)),
                       states[Len(states)])

compute_equilibrium_path_Unsorted(self, last_mover) ==
    states_after(self, last_mover, self.horizon)

\* SalaryBargainingGame.compute_equilibrium_path
compute_equilibrium_path(self, last_mover) ==
    sort_by_round_index(states_after(self, last_mover, self.horizon))

GameArgs ==
    [B : {R(m) : m \in PathMoney}, S : {R(m) : m \in PathMoney},
     E : {R(m) : m \in PathMoney}, delta_e : PathDeltas, delta_r : PathDeltas,
     first_mover : Movers, horizon : 0..MaxHorizon]

\* SalaryBargainingGame(...): the dataclass constructor and __post_init__.
NewGame ==
    /\ game.phase = "args"
    /\ game' = IF post_init_fails(game.args)
               THEN [game EXCEPT !.phase = "ValueError"]
               ELSE [game EXCEPT !.phase = "built",
                                 !.self = <<game.args @@ [offer_history |-> <<>>]>>]
    /\ UNCHANGED exceptGame

\* game.compute_equilibrium_path(last_mover)
ComputePath ==
    /\ game.phase = "built"
    /\ \E last_mover \in Movers :
         game' = [game EXCEPT !.phase = "path",
                              !.last_mover = last_mover,
                              !.path = compute_equilibrium_path(game.self[1], last_mover)]
    /\ UNCHANGED exceptGame

\* max(candidates, key=round_index): None for an empty sequence, where max
\* raises ValueError.
latest_round(candidates) ==
    IF candidates = {} THEN None
    ELSE <<CHOOSE st \in candidates :
             \A other \in candidates : other.round_index <= st.round_index>>

\* The generator handed to max in recommend_employee_offer (lines 1407-1418).
candidate_rounds(path, current_round_index, current_proposer) ==
    IF current_proposer = "employee"
    THEN {path[i] : i \in {j \in 1..Len(path) : path[j].round_index = current_round_index}}
    ELSE {path[i] : i \in {j \in 1..Len(path) :
                             /\ path[j].round_index >= current_round_index
                             /\ path[j].proposer = "employee"}}

\* suggested_salary = self.B + self.pie * candidate.W_e
salary_of_share(self, candidate) ==
    IF candidate = None THEN [exc |-> "ValueError", value |-> None]
    ELSE [exc |-> "none",
          value |-> <<RAdd(self.B, RMul(RSub(self.E, self.B), candidate[1].W_e))>>]

\* SalaryBargainingGame.recommend_employee_offer
recommend_employee_offer(self, current_round_index, current_proposer) ==
    salary_of_share(self,
                    latest_round(candidate_rounds(compute_equilibrium_path(self, "employee"),
                                                  current_round_index, current_proposer)))

Recommended(q, res) ==
    [game EXCEPT !.phase = "recommended", !.query = <<q>>, !.exc = res.exc,
                 !.ret = res.value]

\* game.recommend_employee_offer(current_round_index, current_proposer)
RecommendOffer ==
    /\ game.phase = "built"
    /\ \E current_round_index \in (0 - MaxHorizon - 1)..1 : \E current_proposer \in Movers :
         game' = Recommended([current_round_index |-> current_round_index,
                              current_proposer |-> current_proposer],
                             recommend_employee_offer(game.self[1], current_round_index,
                                                      current_proposer))
    /\ UNCHANGED exceptGame

\* The arguments of one game, still to be constructed.
GameInit ==
    /\ SimInit
    /\ EngInitIdle
    /\ CalcIdle
    /\ JobIdle
    /\ \E args \in GameArgs :
         game = [phase |-> "args", args |-> args, self |-> None, last_mover |-> None,
                 path |-> None, query |-> None, exc |-> "none", ret |-> None]

GameNext ==
    \/ NewGame
    \/ ComputePath
    \/ RecommendOffer

SpecPath == GameInit /\ [][GameNext]_vars

(***************************************************************************)
(* The job-change scorer and the company metrics                           *)
(*                                                                         *)
(* A float that may be infinite or NaN is a pair too: <<1, 0>> is inf,     *)
(* <<-1, 0>> is -inf and <<0, 0>> is NaN.                                  *)
(***************************************************************************)
Inf == <<1, 0>>
NaN == <<0, 0>>
isfinite(x) == x[2] # 0
Sign(i) == IF i > 0 THEN 1 ELSE IF i < 0 THEN -1 ELSE 0

XAdd(x, y) ==
    IF isfinite(x) /\ isfinite(y) THEN RAdd(x, y)
    ELSE IF x = NaN \/ y = NaN THEN NaN
    ELSE IF ~isfinite(x) /\ ~isfinite(y) THEN (IF x = y THEN x ELSE NaN)
    ELSE IF isfinite(x) THEN y ELSE x

XMul(x, y) ==
    IF isfinite(x) /\ isfinite(y) THEN RMul(x, y)
    ELSE IF x = NaN \/ y = NaN \/ x[1] = 0 \/ y[1] = 0 THEN NaN
    ELSE <<Sign(x[1]) * Sign(y[1]), 0>>

\* base ** years for a whole number of years.
RECURSIVE Pow(_, _)
Pow(base, years) ==
    IF years = 0 THEN R(1)
    ELSE IF years < 0 THEN RDiv(R(1), Pow(base, -years))
    ELSE RMul(base, Pow(base, years - 1))

\* The keys stand for "서비스업", "제조·화학업", "판매·유통업", "의료·제약업" and
\* "IT·통신업"; "other" below is a key the table does not hold.
INDUSTRY_GROWTH ==
    [service |-> Frac(11, 1000), manufacturing |-> Frac(3, 100),
     retail |-> Frac(43, 1000), medical |-> Frac(27, 1000), it |-> Frac(43, 1000)]

\* get_industry_growth: the table's value, 0.03 for a key it does not hold.
get_industry_growth(industry) ==
    IF industry \in DOMAIN INDUSTRY_GROWTH THEN INDUSTRY_GROWTH[industry] ELSE Frac(3, 100)

\* A metrics value of a response: its JSON shape, and for an object the
\* fields company_factor reads.  salesGrowth is None or <<float>>; assets is
\* None (absent or not a number) or <<[positive, log10]>>.
Metrics(shape, salesGrowth, assets) ==
    [shape |-> shape, salesGrowth |-> salesGrowth, assets |-> assets]
EmptyMetrics == Metrics("object", None, None)
Assets(positive, log10) == <<[positive |-> positive, log10 |-> log10]>>

\* What the provider does with one request.
Response(kind, ok, metrics, warnings, error) ==
    [kind |-> kind, ok |-> ok, metrics |-> metrics, warnings |-> warnings, error |-> error]

Responses ==
    { Response("transport_error", FALSE, EmptyMetrics, <<>>, ""),
      Response("http_error", FALSE, EmptyMetrics, <<>>, ""),
      Response("malformed", FALSE, EmptyMetrics, <<>>, ""),
      Response("not_object", FALSE, EmptyMetrics, <<>>, ""),
      Response("object", TRUE, Metrics("object", <<Frac(1, 4)>>, Assets(TRUE, 12)), <<>>, ""),
      Response("object", TRUE, Metrics("object", None, Assets(TRUE, 24)), <<"partial">>, ""),
      Response("object", TRUE, Metrics("object", <<Inf>>, Assets(FALSE, 0)), <<>>, ""),
      Response("object", TRUE, Metrics("array", None, None), <<>>, ""),
      Response("object", FALSE, Metrics("absent", None, None), <<>>, ""),
      Response("object", FALSE, Metrics("object", <<Frac(1, 4)>>, None), <<>>, "no filing") }

strip(name) == IF name = " " THEN "" ELSE name

Fetched(metrics, warnings, ok, error) ==
    [exc |-> "none", metrics |-> metrics, warnings |-> warnings, ok |-> ok, error |-> error,
     requested |-> TRUE]
FetchRaised(exc) ==
    [exc |-> exc, metrics |-> EmptyMetrics, warnings |-> <<>>, ok |-> FALSE, error |-> "",
     requested |-> TRUE]

\* data.get("metrics") or {}
metrics_or_empty(metrics) == IF metrics.shape = "absent" THEN EmptyMetrics ELSE metrics

\* fetch_corp_metrics of main.py (lines 271-330) when the provider answers res.
fetch_corp_metrics(name, res) ==
    IF strip(name) = ""
    THEN [Fetched(EmptyMetrics, <<"empty">>, FALSE, "empty") EXCEPT !.requested = FALSE]
    ELSE IF res.kind \in {"transport_error", "malformed"}
    THEN Fetched(EmptyMetrics, <<"exception">>, FALSE, "exception")
    ELSE IF res.kind = "http_error"
    THEN Fetched(EmptyMetrics, <<"http">>, FALSE, "http")
    ELSE IF res.kind = "not_object"
    THEN FetchRaised("AttributeError")
    ELSE Fetched(metrics_or_empty(res.metrics),
                 IF res.ok THEN res.warnings
                 ELSE Append(res.warnings,
                             IF res.error # "" THEN res.error ELSE "no data"),
                 res.ok, res.error)

\* fetch_corp_metrics of main2.py (lines 34-53): it returns the metrics alone.
fetch_corp_metrics_main2(name, res) ==
    IF strip(name) = ""
    THEN [FetchRaised("ValueError") EXCEPT !.requested = FALSE]
    ELSE IF res.kind = "transport_error" THEN FetchRaised("ConnectionError")
    ELSE IF res.kind = "http_error" THEN FetchRaised("RuntimeError")
    ELSE IF res.kind = "malformed" THEN FetchRaised("JSONDecodeError")
    ELSE IF res.kind = "not_object" THEN FetchRaised("AttributeError")
    ELSE IF ~res.ok THEN FetchRaised("RuntimeError")
    ELSE Fetched(metrics_or_empty(res.metrics), <<>>, TRUE, "")

\* company_factor (the same in both programs); None when metrics.get raises
\* AttributeError because metrics is not an object.
company_factor(metrics, industry_growth_fallback) ==
    IF metrics.shape # "object" THEN None
    ELSE LET sg == IF metrics.salesGrowth # None
                   THEN metrics.salesGrowth[1] ELSE industry_growth_fallback
             growth_component == XAdd(R(1), sg)
             size_component ==
                 IF metrics.assets # None /\ metrics.assets[1].positive
                 THEN Frac(metrics.assets[1].log10, 12)
                 ELSE R(1)
         IN  <<XMul(growth_component, size_component)>>

\* format_score: the hundredths printed, None for "-".
format_score(x) == IF ~isfinite(x) THEN None ELSE <<round(RMul(R(100), x))>>

\* The four decisions: "이직!", "잔류!", "보류", "계산 불가".
Move == "move"
Stay == "stay"
Indifferent == "indifferent"
Indeterminate == "indeterminate"

decide_ByDisplay(wp, wk) ==
    IF isfinite(wp) /\ isfinite(wk)
    THEN IF format_score(wk)[1] > format_score(wp)[1] THEN Move
         ELSE IF format_score(wp)[1] > format_score(wk)[1] THEN Stay
         ELSE Indifferent
    ELSE Indeterminate

\* The decision of compute_job_change (lines 419-427; main2.py 138-146).
decide(wp, wk) ==
    IF isfinite(wp) /\ isfinite(wk)
    THEN IF RLt(wp, wk) THEN Move
         ELSE IF RLt(wk, wp) THEN Stay
         ELSE Indifferent
    ELSE Indeterminate

JobArgs(years, salary, corps, industries) ==
    [years |-> years, salary |-> salary, current_corp |-> corps[1], next_corp |-> corps[2],
     current_industry |-> industries[1], target_industry |-> industries[2]]

invalid_input_YearsUnchecked(a) ==
    \/ a.current_industry = "" \/ a.target_industry = ""
    \/ a.salary <= 0
    \/ strip(a.current_corp) = "" \/ strip(a.next_corp) = ""

\* The checks that open compute_job_change (lines 381-388; main2.py 108-115).
invalid_input(a) ==
    \/ a.current_industry = "" \/ a.target_industry = ""
    \/ a.years < 0
    \/ a.salary <= 0
    \/ strip(a.current_corp) = "" \/ strip(a.next_corp) = ""

JobRaised(exc, calls) == [exc |-> exc, calls |-> calls, value |-> None]

\* compute_job_change of main.py, the provider answering res_now and then res_next.
compute_job_change(a, res_now, res_next) ==
    IF invalid_input(a) THEN JobRaised("ValueError", 0)
    ELSE LET now_info == fetch_corp_metrics(a.current_corp, res_now)
             next_info == fetch_corp_metrics(a.next_corp, res_next)
             g_now_ind == get_industry_growth(a.current_industry)
             g_next_ind == get_industry_growth(a.target_industry)
             salary_scale == RDiv(R(a.salary), R(100000000))
             sp_base_now == RMul(salary_scale, Pow(RAdd(R(1), g_now_ind), a.years))
             sp_base_next == RMul(salary_scale, Pow(RAdd(R(1), g_next_ind), a.years))
             factor_now == company_factor(now_info.metrics, g_now_ind)
             factor_next == company_factor(next_info.metrics, g_next_ind)
         IN  IF now_info.exc # "none" THEN JobRaised(now_info.exc, 1)
             ELSE IF next_info.exc # "none" THEN JobRaised(next_info.exc, 2)
             ELSE IF factor_now = None \/ factor_next = None
             THEN JobRaised("AttributeError", 2)
             ELSE LET wp == XMul(sp_base_now, factor_now[1])
                      wk == XMul(sp_base_next, factor_next[1])
                  IN  [exc |-> "none", calls |-> 2,
                       value |-> [Wp |-> wp, Wk |-> wk,
                                  Wp_str |-> format_score(wp),
                                  Wk_str |-> format_score(wk),
                                  decision |-> decide(wp, wk),
                                  now_metrics |-> now_info.metrics,
                                  next_metrics |-> next_info.metrics,
                                  now_warnings |-> now_info.warnings,
                                  next_warnings |-> next_info.warnings,
                                  now_ok |-> now_info.ok,
                                  next_ok |-> next_info.ok,
                                  g_now_ind |-> g_now_ind,
                                  g_next_ind |-> g_next_ind,
                                  sp_base_now |-> sp_base_now,
                                  sp_base_next |-> sp_base_next,
                                  factor_now |-> factor_now[1],
                                  factor_next |-> factor_next[1]]]

\* compute_job_change of main2.py: one sp_base, and metrics without warnings.
compute_job_change_main2(a, res_now, res_next) ==
    IF invalid_input(a) THEN JobRaised("ValueError", 0)
    ELSE LET now_info == fetch_corp_metrics_main2(a.current_corp, res_now)
             next_info == fetch_corp_metrics_main2(a.next_corp, res_next)
             g_now_ind == get_industry_growth(a.current_industry)
             g_next_ind == get_industry_growth(a.target_industry)
             salary_scale == RDiv(R(a.salary), R(100000000))
             sp_base == RMul(salary_scale, Pow(RAdd(R(1), g_now_ind), a.years))
             factor_now == company_factor(now_info.metrics, g_now_ind)
             factor_next == company_factor(next_info.metrics, g_next_ind)
         IN  IF now_info.exc # "none" THEN JobRaised(now_info.exc, 1)
             ELSE IF next_info.exc # "none" THEN JobRaised(next_info.exc, 2)
             ELSE IF factor_now = None \/ factor_next = None
             THEN JobRaised("AttributeError", 2)
             ELSE LET wp == XMul(sp_base, factor_now[1])
                      wk == XMul(sp_base, factor_next[1])
                  IN  [exc |-> "none", calls |-> 2,
                       value |-> [Wp |-> wp, Wk |-> wk,
                                  Wp_str |-> format_score(wp),
                                  Wk_str |-> format_score(wk),
                                  decision |-> decide(wp, wk),
                                  now_metrics |-> now_info.metrics,
                                  next_metrics |-> next_info.metrics,
                                  now_warnings |-> <<>>,
                                  next_warnings |-> <<>>,
                                  now_ok |-> TRUE,
                                  next_ok |-> TRUE,
                                  g_now_ind |-> g_now_ind,
                                  g_next_ind |-> g_next_ind,
                                  sp_base_now |-> sp_base,
                                  sp_base_next |-> sp_base,
                                  factor_now |-> factor_now[1],
                                  factor_next |-> factor_next[1]]]

store_or_report_ClearsOnError(stored, res) ==
    [stored |-> IF res.exc = "none" THEN <<res.value>> ELSE None,
     exc |-> res.exc, calls |-> res.calls, called |-> TRUE,
     ret |-> IF res.exc = "none" THEN <<res.value>> ELSE None]

\* The form of page p2 submitted (lines 559-574; main2.py 226-241): what the
\* run leaves in jc_result, and its history.
\* try: jc_result = res; except Exception: the error is shown and jc_result stays.
store_or_report(stored, res) ==
    [stored |-> IF res.exc = "none" THEN <<res.value>> ELSE stored,
     exc |-> res.exc, calls |-> res.calls, called |-> TRUE,
     ret |-> IF res.exc = "none" THEN <<res.value>> ELSE None]

job_change_form(program, stored, a, res_now, res_next) ==
    IF a.current_corp = "" \/ a.next_corp = ""
    THEN [stored |-> stored, exc |-> "none", calls |-> 0, called |-> FALSE, ret |-> None]
    ELSE store_or_report(stored,
                         IF program = "main"
                         THEN compute_job_change(a, res_now, res_next)
                         ELSE compute_job_change_main2(a, res_now, res_next))

MaxYears == 1
JobYears == -1 .. MaxYears
JobSalaries == {0, 100000000, 200000000}
JobIndustries ==
    { <<"medical", "other">>, <<"medical", "medical">>, <<"it", "medical">>,
      <<"other", "it">>, <<"", "it">>, <<"it", "">> }
JobCorps == { <<"A", "B">>, <<"", "B">>, <<" ", "B">>, <<"A", " ">>, <<"A", "">> }
FullAnswer == Response("object", TRUE, Metrics("object", <<Frac(1, 4)>>, Assets(TRUE, 12)), <<>>, "")

\* The calls examined: every pair of provider answers for two named
\* companies, and every way of leaving a company name out.
JobInputs ==
    { <<JobArgs(y, s, <<"A", "B">>, i), <<r1, r2>> >> :
        y \in JobYears, s \in JobSalaries, i \in JobIndustries,
        r1 \in Responses, r2 \in Responses }
    \cup
    { <<JobArgs(y, s, c, i), <<FullAnswer, FullAnswer>> >> :
        y \in JobYears, s \in JobSalaries, i \in JobIndustries, c \in JobCorps }

\* A result an earlier run of the form left in jc_result.
EarlierJobResult ==
    compute_job_change(JobArgs(1, 100000000, <<"A", "B">>, <<"medical", "it">>),
                       FullAnswer, FullAnswer).value

\* What the widgets of the form can hold (lines 518-555; main2.py 185-224).
form_values(a) ==
    /\ a.years >= 0 /\ a.years <= 50
    /\ a.salary >= 1 /\ a.salary \div 10 <= 500000000
    /\ a.current_industry \in DOMAIN INDUSTRY_GROWTH
    /\ a.target_industry \in DOMAIN INDUSTRY_GROWTH

JobDrawn == job.op = "none" /\ job.args # None

\* The history of one call: what it raised or returned, and the requests made.
JobCall(op, res) ==
    [job EXCEPT !.op = op, !.exc = res.exc, !.calls = res.calls,
                !.ret = IF res.exc = "none" THEN <<res.value>> ELSE None]
FetchCall(info) ==
    [exc |-> info.exc, calls |-> IF info.requested THEN 1 ELSE 0, value |-> info]
Rendered(out) ==
    /\ jc_result' = out.stored
    /\ job' = [job EXCEPT !.op = IF out.called THEN "form" ELSE "form_refused",
                          !.exc = out.exc, !.calls = out.calls, !.ret = out.ret]

\* compute_job_change called with the drawn arguments.
CallJobChange ==
    /\ JobDrawn
    /\ job' = JobCall("compute_job_change",
                       IF job.program = "main"
                       THEN compute_job_change(job.args[1], job.responses[1], job.responses[2])
                       ELSE compute_job_change_main2(job.args[1], job.responses[1],
                                                     job.responses[2]))
    /\ UNCHANGED <<page, jc_result>>
    /\ UNCHANGED exceptJob

\* fetch_corp_metrics called with the current company's name.
CallFetch ==
    /\ JobDrawn
    /\ job' = JobCall("fetch_corp_metrics",
                       FetchCall(IF job.program = "main"
                                 THEN fetch_corp_metrics(job.args[1].current_corp,
                                                         job.responses[1])
                                 ELSE fetch_corp_metrics_main2(job.args[1].current_corp,
                                                               job.responses[1])))
    /\ UNCHANGED <<page, jc_result>>
    /\ UNCHANGED exceptJob

\* The form of page p2 submitted with the drawn values.
SubmitJobForm ==
    /\ JobDrawn
    /\ page = "p2"
    /\ form_values(job.args[1])
    /\ Rendered(job_change_form(job.program, jc_result, job.args[1],
                                job.responses[1], job.responses[2]))
    /\ UNCHANGED page
    /\ UNCHANGED exceptJob

JobInit ==
    /\ SimInit
    /\ EngInitIdle
    /\ CalcIdle
    /\ GameIdle
    /\ page = "p2"
    /\ jc_result \in {None, <<EarlierJobResult>>}
    /\ \E program \in {"main", "main2"} : \E input \in JobInputs :
         job = [NoJob EXCEPT !.program = program, !.args = <<input[1]>>,
                             !.responses = input[2], !.prior = jc_result]

JobNext ==
    \/ CallJobChange
    \/ CallFetch
    \/ SubmitJobForm

SpecJob == JobInit /\ [][JobNext]_vars

(***************************************************************************)
(* The pages: the form of p2 and the buttons that change the page          *)
(***************************************************************************)
\* The forms submitted: one choice of years, salary and industries, with
\* every pair of provider answers and every way of leaving a name out.
NavInputs ==
    { input \in JobInputs :
        /\ form_values(input[1])
        /\ input[1].years = 0
        /\ input[1].salary = 100000000
        /\ input[1].current_industry = "it" }

move_button_AnyResult(result) == result # None

\* The button of p2 that leads to the menu (lines 649-654; main2.py 315-320):
\* drawn only under a stored result whose decision is "이직!".
move_button(result) == result # None /\ result[1].decision = Move

\* "계산" pressed on p2 with some values in the form.
SubmitForm ==
    /\ page = "p2"
    /\ \E input \in NavInputs :
         LET out == job_change_form(job.program, jc_result, input[1],
                                    input[2][1], input[2][2])
         IN  /\ jc_result' = out.stored
             /\ job' = [job EXCEPT !.op = "form", !.args = <<input[1]>>,
                                   !.exc = out.exc]
    /\ UNCHANGED page
    /\ UNCHANGED exceptJob

ClickMove ==
    /\ page = "p2"
    /\ move_button(jc_result)
    /\ page' = "p3"
    /\ UNCHANGED <<jc_result, job>>
    /\ UNCHANGED exceptJob

BackToP2 ==
    /\ page = "p3"
    /\ page' = "p2"
    /\ UNCHANGED <<jc_result, job>>
    /\ UNCHANGED exceptJob

GoP5 ==
    /\ page = "p3"
    /\ page' = "p5"
    /\ UNCHANGED <<jc_result, job>>
    /\ UNCHANGED exceptJob

GoP4 ==
    /\ page = "p3"
    /\ page' = "p4"
    /\ UNCHANGED <<jc_result, job>>
    /\ UNCHANGED exceptJob

BackToP3 ==
    /\ page \in {"p4", "p5"}
    /\ page' = "p3"
    /\ UNCHANGED <<jc_result, job>>
    /\ UNCHANGED exceptJob

NavInit ==
    /\ SimInit
    /\ EngInitIdle
    /\ CalcIdle
    /\ GameIdle
    /\ page = "p2"
    /\ jc_result = None
    /\ \E program \in {"main", "main2"} : job = [NoJob EXCEPT !.program = program]

NavNext ==
    \/ SubmitForm
    \/ ClickMove
    \/ BackToP2
    \/ GoP5
    \/ GoP4
    \/ BackToP3

SpecNav == NavInit /\ [][NavNext]_vars

(***************************************************************************)
(* Properties of the turn-based simulator                                  *)
(***************************************************************************)
HasSession == neg_state # None
Cur == neg_state[1]
Pre == ev.pre[1]
InClosedRange(lo, x, hi) == RLe(lo, x) /\ RLe(x, hi)

\* C1: rejecting the firm's offer when current_round = max_rounds leaves the
\* session failed, not ongoing, and the turn is not handed to the worker.
C1_RejectAtLastRoundFails ==
    (ev.op = "reject" /\ Pre.current_round = Pre.max_rounds)
        => /\ HasSession
           /\ Cur.status = "failed"
           /\ Cur.turn = "employer"
           /\ Cur.final_salary = None

C1_Witness ==
    /\ ev.op = "reject"
    /\ Pre.max_rounds = 1
    /\ Pre.current_round = 1
    /\ Pre.first_mover = "employer"
    /\ Pre.status = "ongoing"
    /\ Cur.status = "failed"

\* C2: success and failed are absorbing: from a terminal session no accept,
\* reject or propose step exists, and a step either leaves the session as it
\* is, or is a reset that discards it, or is an accepted new-session start.
C2_TerminalAbsorbing ==
    [][(HasSession /\ Cur.status \in {"success", "failed"})
         => /\ ev'.op \notin {"accept", "reject", "propose"}
            /\ \/ neg_state' = neg_state
               \/ ev'.op = "reset" /\ neg_state' = None
               \/ ev'.op = "start" /\ ~ev'.error /\ neg_state' # None
                    /\ neg_state'[1].current_round = 1]_vars

C2_Witness ==
    /\ HasSession
    /\ Cur.status = "failed"
    /\ Cur.turn = "employer"
    /\ ev.op = "start"
    /\ ev.error

\* C3: on the firm's turn, accept gives success with final_salary the offer
\* shown in that turn; reject consumes exactly one round and then fails the
\* session if the budget is exceeded, else hands the turn to the worker.
C3_FirmTurnActions ==
    /\ ev.op = "accept"
         => /\ Cur.status = "success"
            /\ Pre.last_employer_offer # None
            /\ Cur.final_salary = Pre.last_employer_offer
            /\ Cur.current_round = Pre.current_round
    /\ ev.op = "reject"
         => /\ Cur.current_round = Pre.current_round + 1
            /\ Cur.final_salary = None
            /\ IF Cur.current_round > Cur.max_rounds
               THEN Cur.status = "failed"
               ELSE Cur.status = "ongoing" /\ Cur.turn = "employee"

C3_Witness ==
    /\ ev.op = "accept"
    /\ Pre.last_employee_offer # None
    /\ Pre.current_round > 1
    /\ Cur.status = "success"
    /\ Cur.final_salary # Cur.S_star

\* C4: a worker proposal p with B <= p <= E ends the session at once with
\* success and final_salary = p; no round is consumed and no counter-offer
\* is computed.
C4_ProposalInRangeAccepted ==
    (ev.op = "propose" /\ InClosedRange(Pre.B, R(ev.arg[1]), Pre.E))
        => /\ Cur.status = "success"
           /\ Cur.final_salary = R(ev.arg[1])
           /\ Cur.current_round = Pre.current_round
           /\ Cur.last_employer_offer = Pre.last_employer_offer
           /\ Cur.turn = Pre.turn

C4_Witness ==
    /\ ev.op = "propose"
    /\ R(ev.arg[1]) = Pre.B
    /\ Pre.current_round > 1
    /\ Cur.status = "success"

\* C5: a worker proposal outside [B,E] is recorded as the last worker offer,
\* the firm counters from it with the firm-offer rule, exactly one round is
\* consumed, and the session fails if the budget is exceeded, else the turn
\* passes to the firm with status ongoing.
C5_ProposalOutOfRangeCountered ==
    (ev.op = "propose" /\ ~InClosedRange(Pre.B, R(ev.arg[1]), Pre.E))
        => LET p == R(ev.arg[1])
               mid == RAdd(p, RMul(Half, RSub(Pre.S_star, p)))
           IN  /\ Cur.last_employee_offer = p
               /\ Cur.last_employer_offer = RMax(Pre.B, RMin(Pre.E, mid))
               /\ Cur.current_round = Pre.current_round + 1
               /\ Cur.final_salary = None
               /\ IF Cur.current_round > Cur.max_rounds
                  THEN Cur.status = "failed"
                  ELSE Cur.status = "ongoing" /\ Cur.turn = "employer"

C5_Witness ==
    /\ ev.op = "propose"
    /\ RLt(Pre.E, R(ev.arg[1]))
    /\ Cur.status = "ongoing"
    /\ Cur.turn = "employer"
    /\ Cur.last_employer_offer # Cur.S_star

\* C6: the firm's offer is S* when no worker offer was made, otherwise
\* lastWorkerOffer + 0.5 (S* - lastWorkerOffer) clamped to [B,E]; every firm
\* offer lies in [B,E].
C6_FirmOfferRule ==
    HasSession =>
        /\ Cur.last_employer_offer # None
             => InClosedRange(Cur.B, Cur.last_employer_offer, Cur.E)
        /\ (Cur.status = "ongoing" /\ Cur.turn = "employer")
             => Cur.last_employer_offer =
                  IF Cur.last_employee_offer = None
                  THEN RMax(Cur.B, RMin(Cur.E, Cur.S_star))
                  ELSE RMax(Cur.B, RMin(Cur.E,
                         RAdd(Cur.last_employee_offer,
                              RMul(Half, RSub(Cur.S_star, Cur.last_employee_offer)))))

C6_Witness ==
    /\ HasSession
    /\ Cur.status = "ongoing"
    /\ Cur.turn = "employer"
    /\ Cur.last_employee_offer # None
    /\ RLt(Cur.last_employee_offer, Cur.B)
    /\ Cur.last_employer_offer = Cur.B

\* C7: S*, B, E, the discount factors, max_rounds and first_mover are not
\* changed by any accept, reject or propose.
Frozen(s) ==
    <<s.S_star, s.B, s.E, s.delta_E, s.delta_R, s.max_rounds, s.first_mover,
      s.share_E, s.share_R>>

C7_ParametersFrozen ==
    ev.op \in {"accept", "reject", "propose"}
        => HasSession /\ Frozen(Cur) = Frozen(Pre)

C7_Witness ==
    /\ ev.op = "propose"
    /\ Cur.status = "ongoing"
    /\ Cur.last_employer_offer # None
    /\ Cur.last_employer_offer # Cur.S_star
    /\ Cur.S_star = Pre.S_star

\* C8: a start with B >= E shows an error and starts nothing: no session is
\* created and an existing session stays exactly as it was.
C8_BadStartChangesNothing ==
    [][(ev'.op = "start" /\ ev'.arg[1] >= ev'.arg[2])
         => (ev'.error /\ neg_state' = neg_state)]_vars

C8_Witness ==
    /\ ev.op = "start"
    /\ ev.arg[1] = ev.arg[2]
    /\ ev.error
    /\ HasSession
    /\ Cur.status = "ongoing"
    /\ Cur.turn = "employer"
    /\ Cur.current_round > 1

(***************************************************************************)
(* Properties of the engine's constructor                                  *)
(***************************************************************************)
EngArgs == eng_ev.args
ArgTable == IF EngArgs.E_table = None THEN DEFAULT_E_BY_FIELD ELSE EngArgs.E_table[1]
ArgMoverValid == EngArgs.first_mover \in {"employee", "employer", "Employer", "EMPLOYEE"}
ArgFieldKnown == EngArgs.field_name \in DOMAIN ArgTable

\* C9: constructing the engine with S outside [B, E_max], or with E_max <= B
\* (first_mover and field being valid), raises the range error and assigns no
\* state.
C9_OutOfRangeConstructionFails ==
    (eng_ev.op = "init" /\ ArgMoverValid /\ ArgFieldKnown
       /\ LET E == ArgTable[EngArgs.field_name]
          IN  EngArgs.S < EngArgs.B \/ EngArgs.S > E \/ E <= EngArgs.B)
        => eng_ev.exc = "ValueError" /\ model = None

C9_Witness ==
    /\ eng_ev.op = "init"
    /\ ArgMoverValid
    /\ ArgFieldKnown
    /\ EngArgs.S < EngArgs.B
    /\ EngArgs.B < ArgTable[EngArgs.field_name]
    /\ eng_ev.exc = "ValueError"
    /\ model = None

\* C10: an unknown field key raises KeyError, a first_mover that is not
\* employee/employer in any letter case raises ValueError, neither creates a
\* session, and a built session's ceiling is the table entry of its field.
C10_ConstructorLookups ==
    eng_ev.op = "init" =>
        /\ ~ArgMoverValid => (eng_ev.exc = "ValueError" /\ model = None)
        /\ (ArgMoverValid /\ ~ArgFieldKnown) => (eng_ev.exc = "KeyError" /\ model = None)
        /\ eng_ev.exc # "none" => model = None
        /\ eng_ev.exc = "none"
             => /\ model # None
                /\ ArgMoverValid
                /\ ArgFieldKnown
                /\ model[1].E_max = R(ArgTable[EngArgs.field_name])
                /\ model[1].first_mover \in {"employee", "employer"}

C10_Witness ==
    /\ eng_ev.op = "init"
    /\ EngArgs.E_table # None
    /\ EngArgs.field_name = "driver"
    /\ EngArgs.first_mover = "Employer"
    /\ eng_ev.exc = "KeyError"
    /\ model = None

\* C11 (as stated): every constructed session has B < S <= E.
C11_Original_StrictFloor ==
    model # None
        => /\ RLt(model[1].B, model[1].S_target)
           /\ RLe(model[1].S_target, model[1].E_max)

\* C11 (amended): every constructed session has B <= S <= E and B < E; the
\* target may equal the floor (x = 0 passes the feasibility check).
C11_TargetWithinRange ==
    model # None
        => /\ RLe(model[1].B, model[1].S_target)
           /\ RLe(model[1].S_target, model[1].E_max)
           /\ RLt(model[1].B, model[1].E_max)

C11_Witness ==
    /\ model # None
    /\ model[1].S_target = model[1].B
    /\ RLt(model[1].S_target, model[1].E_max)

(***************************************************************************)
(* Properties of the engine's operations                                   *)
(***************************************************************************)
EngCur == model[1]
EngPre == eng_ev.pre[1]
Clamp(x, lo, hi) == RMax(lo, RMin(x, hi))

\* The side that owns round r: first_mover when r is odd, the other when even.
OwnerOf(s, r) ==
    IF r % 2 = 1 THEN s.first_mover
    ELSE IF s.first_mover = "employee" THEN "employer" ELSE "employee"

\* The round a call of next_employee_offer stops at.
ReachedRound(s) ==
    IF s.current_round <= s.total_rounds /\ OwnerOf(s, s.current_round) = "employer"
    THEN s.current_round + 1
    ELSE s.current_round

LastFirmOffer(s) ==
    IF Len(s.history_employer) = 0 THEN s.B ELSE s.history_employer[Len(s.history_employer)]

\* clamp(0.5 (1 - delta_E) + 0.5 / remaining, 0.1, 0.9), remaining = total_rounds - r + 1
StepAt(s, r) ==
    Clamp(RAdd(RMul(Half, RSub(R(1), s.delta_E)), Frac(1, 2 * (s.total_rounds - r + 1))),
          Frac(1, 10), Frac(9, 10))

SuggestionFrom(s, r, last) ==
    Clamp(RAdd(last, RMul(StepAt(s, r), RSub(s.S_target, last))), s.B, s.E_max)

\* C12: in a worker-owned round r <= total_rounds, next_employee_offer returns
\* clamp(last + step (S - last), B, E) with last the most recent firm offer
\* (B if none), step = clamp(0.5 (1 - delta_E) + 0.5 / remaining, 0.1, 0.9),
\* remaining = total_rounds - r + 1; it appends that value to the worker's
\* history and advances current_round by exactly one.
C12_SuggestionFormula ==
    (eng_ev.op = "next" /\ ReachedRound(EngPre) <= EngPre.total_rounds)
        => LET r == ReachedRound(EngPre)
               value == SuggestionFrom(EngPre, r, LastFirmOffer(EngCur))
           IN  /\ eng_ev.ret = value
               /\ EngCur.history_employee = Append(EngPre.history_employee, value)
               /\ EngCur.current_round = r + 1

C12_Witness ==
    /\ eng_ev.op = "next"
    /\ eng_ev.args # None
    /\ ReachedRound(EngPre) <= EngPre.total_rounds
    /\ Len(EngCur.history_employee) = Len(EngPre.history_employee) + 1
    /\ RLt(EngCur.B, eng_ev.ret)
    /\ RLt(eng_ev.ret, EngCur.S_target)
    /\ EngCur.current_round = EngPre.current_round + 2

\* C13: round r belongs to first_mover when r is odd and to the other side
\* when even; next_employee_offer first steps past a firm-owned round, and if
\* the round then exceeds total_rounds it returns S, appends nothing and does
\* not advance further; a later call without a counter-offer returns S again
\* and changes nothing.
C13_TurnOrderAndFallback ==
    eng_ev.op = "next" =>
        LET r == ReachedRound(EngPre)
        IN  /\ r <= EngPre.total_rounds
                 => /\ OwnerOf(EngPre, r) = "employee"
                    /\ Len(EngCur.history_employee) = Len(EngPre.history_employee) + 1
            /\ r > EngPre.total_rounds
                 => /\ eng_ev.ret = EngPre.S_target
                    /\ EngCur.history_employee = EngPre.history_employee
                    /\ EngCur.current_round = r
            /\ (EngPre.current_round > EngPre.total_rounds /\ eng_ev.args = None)
                 => /\ eng_ev.ret = EngPre.S_target
                    /\ model = eng_ev.pre

C13_Witness ==
    /\ eng_ev.op = "next"
    /\ EngPre.first_mover = "employee"
    /\ EngPre.total_rounds = 2
    /\ EngPre.current_round = 2
    /\ EngCur.current_round = 3
    /\ eng_ev.ret = EngCur.S_target
    /\ Len(EngCur.history_employee) = 1
    /\ EngCur.history_employee = EngPre.history_employee

\* C14: an observed employer offer below B or above E is taken as it is: the
\* exact value is appended to the firm's history and is the base of the next
\* suggestion; only the returned suggestion is clamped to [B, E].
C14_OffersObservedUnclamped ==
    /\ eng_ev.op = "observe"
         => /\ eng_ev.exc = "none"
            /\ EngCur.history_employer = Append(EngPre.history_employer, eng_ev.args[1])
    /\ (eng_ev.op = "next" /\ eng_ev.args # None)
         => /\ eng_ev.exc = "none"
            /\ EngCur.history_employer = Append(EngPre.history_employer, eng_ev.args[1])
            /\ ReachedRound(EngPre) <= EngPre.total_rounds
                 => /\ eng_ev.ret = SuggestionFrom(EngPre, ReachedRound(EngPre), eng_ev.args[1])
                    /\ InClosedRange(EngPre.B, eng_ev.ret, EngPre.E_max)

C14_Witness ==
    /\ eng_ev.op = "next"
    /\ eng_ev.args # None
    /\ RLt(eng_ev.args[1], EngPre.B)
    /\ Len(EngPre.history_employer) = 1
    /\ RLt(EngPre.E_max, EngPre.history_employer[1])
    /\ EngCur.history_employer = <<EngPre.history_employer[1], eng_ev.args[1]>>
    /\ Len(EngCur.history_employee) = Len(EngPre.history_employee) + 1
    /\ RLt(EngPre.B, EngPre.S_target)
    /\ eng_ev.ret = EngPre.B

\* The closeness of an offer to the target, (offer - B) / max(S - B, 1e-9)
\* clamped to [0, 1].  When S = B the denominator is 1e-9, and any offer
\* above B by a representable amount is clamped to 1.
Closeness(s, offer) ==
    IF RLt(s.B, s.S_target)
    THEN Clamp(RDiv(RSub(offer, s.B), RSub(s.S_target, s.B)), R(0), R(1))
    ELSE IF RLt(s.B, offer) THEN R(1) ELSE R(0)

Ema(old, weight, closeness, slope) ==
    RAdd(RMul(RSub(R(1), weight), old),
         RMul(weight, RSub(R(1), RMul(slope, closeness))))

ObservedOffer ==
    IF eng_ev.op = "observe" \/ (eng_ev.op = "next" /\ eng_ev.args # None)
    THEN eng_ev.args
    ELSE None

NoEngine == eng_ev.op = "none"
PageUnused == ev.op = "init"

AllNext ==
    \/ NoEngine /\ StartSession
    \/ NoEngine /\ Accept
    \/ NoEngine /\ Reject
    \/ NoEngine /\ Propose
    \/ NoEngine /\ ResetTerminal
    \/ NoEngine /\ ResetOngoing
    \/ PageUnused /\ Construct
    \/ PageUnused /\ Observe
    \/ PageUnused /\ NextOffer

SpecAll == Init /\ [][AllNext]_vars

\* C16: the round counter never decreases: every engine operation
\* (next_employee_offer, observe_employer_offer) and every simulator operation
\* (accept, reject, propose) leaves current_round equal to or greater than its
\* previous value within one session.
C16_RoundNeverDecreases ==
    /\ eng_ev.op \in {"observe", "next"}
         => EngCur.current_round >= EngPre.current_round
    /\ (ev.op \in {"accept", "reject", "propose"} /\ ev.pre # None /\ HasSession)
         => Cur.current_round >= Pre.current_round

C16_Witness ==
    /\ ev.op = "reject"
    /\ HasSession
    /\ ~IsTerminal(Cur)
    /\ Cur.current_round = Pre.current_round + 1
    /\ Cur.turn = "employee"

(***************************************************************************)
(* Properties of the Rubinstein calculators                                *)
(***************************************************************************)
CalcB == calc.args[1]
CalcE == calc.args[2]
CalcDeltaW == calc.args[3]
CalcDeltaF == calc.args[4]
Returned == calc.fn # "none" /\ calc.exc = "none"
InOpenUnit(d) == RLt(R(0), d) /\ RLt(d, R(1))

\* C17: for every B, E with E > B > 0 and discount factors strictly between
\* 0 and 1, a Rubinstein calculator returns a worker share in [0, 1] and an
\* equilibrium salary in [B, E].
C17_ShareAndSalaryInRange ==
    (/\ calc.fn \in {"equilibrium", "salary"}
     /\ RLt(R(0), CalcB) /\ RLt(CalcB, CalcE)
     /\ InOpenUnit(CalcDeltaW) /\ InOpenUnit(CalcDeltaF))
        => /\ calc.exc = "none"
           /\ InClosedRange(R(0), calc.value.share_worker, R(1))
           /\ InClosedRange(CalcB, calc.value.salary_worker, CalcE)

C17_Witness ==
    /\ calc.fn = "equilibrium"
    /\ Returned
    /\ RLt(R(0), CalcB) /\ RLt(CalcB, CalcE)
    /\ CalcDeltaW # CalcDeltaF
    /\ RLt(R(0), calc.value.share_worker) /\ RLt(calc.value.share_worker, R(1))
    /\ RLt(CalcB, calc.value.salary_worker) /\ RLt(calc.value.salary_worker, CalcE)

\* C18: the calculator returns workerShare = (1 - delta_f) / (1 - delta_w delta_f),
\* salary = B + workerShare (E - B), firmShare = 1 - workerShare, the firm's
\* residual = E - salary and pie = E - B; for B = 50,000,000, E = 80,000,000,
\* delta_w = 0.95, delta_f = 0.90 the share is 0.10 / 0.145 and the salary
\* rounds to 70,689,655.
C18_EquilibriumFormula ==
    (calc.fn = "equilibrium" /\ Returned)
        => LET share == RDiv(RSub(R(1), CalcDeltaF),
                             RSub(R(1), RMul(CalcDeltaW, CalcDeltaF)))
               salary == RAdd(CalcB, RMul(share, RSub(CalcE, CalcB)))
           IN  /\ calc.value.share_worker = share
               /\ calc.value.salary_worker = salary
               /\ calc.value.share_firm = RSub(R(1), share)
               /\ calc.value.surplus_firm = RSub(CalcE, salary)
               /\ calc.value.pie = RSub(CalcE, CalcB)
               /\ calc.args = <<R(50000000), R(80000000), Frac(95, 100), Frac(90, 100)>>
                    => /\ share = RDiv(Frac(10, 100), Frac(145, 1000))
                       /\ calc.shown = <<70689655>>

C18_Witness ==
    /\ calc.fn = "equilibrium"
    /\ Returned
    /\ calc.args = <<R(50000000), R(80000000), Frac(95, 100), Frac(90, 100)>>
    /\ calc.value.share_worker = Frac(20, 29)
    /\ calc.shown = <<70689655>>

\* C19: for fixed B, E and delta_f, a larger delta_w within (0, 1) never gives
\* a smaller workerShare.
C19_ShareMonotoneInWorkerPatience ==
    (calc.fn = "equilibrium" /\ Returned)
        => \A dw \in CalcDeltas :
             (InOpenUnit(dw) /\ RLe(CalcDeltaW, dw))
                => LET more == compute_rubinstein_equilibrium(CalcB, CalcE, dw, CalcDeltaF)
                   IN  /\ more.exc = "none"
                       /\ RLe(calc.value.share_worker, more.value.share_worker)

C19_Witness ==
    /\ calc.fn = "equilibrium"
    /\ Returned
    /\ \E dw \in CalcDeltas :
         /\ InOpenUnit(dw)
         /\ RLt(CalcDeltaW, dw)
         /\ RLt(calc.value.share_worker,
                compute_rubinstein_equilibrium(CalcB, CalcE, dw, CalcDeltaF).value.share_worker)

\* C20 as stated: called with delta_w = delta_f, the calculator returns
\* workerShare exactly 0.5.
C20_Original_EqualSplit ==
    (calc.fn = "equilibrium" /\ Returned /\ CalcDeltaW = CalcDeltaF)
        => calc.value.share_worker = Half

\* C20: called with delta_w = delta_f = delta in (0, 1), the calculator
\* returns workerShare = 1 / (1 + delta), which lies strictly between 0.5
\* and 1: the side that moves first keeps more than half.
C20_EqualPatienceShare ==
    (calc.fn = "equilibrium" /\ Returned /\ CalcDeltaW = CalcDeltaF)
        => /\ calc.value.share_worker = RDiv(R(1), RAdd(R(1), CalcDeltaW))
           /\ RLt(Half, calc.value.share_worker)
           /\ RLt(calc.value.share_worker, R(1))

C20_Witness ==
    /\ calc.fn = "equilibrium"
    /\ Returned
    /\ CalcDeltaW = CalcDeltaF
    /\ RLt(Half, calc.value.share_worker)
    /\ calc.value.share_worker = RDiv(R(1), RAdd(R(1), CalcDeltaW))

(***************************************************************************)
(* Properties of the inverse solve                                         *)
(***************************************************************************)
AbsR(x) == IF x[1] < 0 THEN <<-x[1], x[2]>> ELSE x
Tolerance == Frac(1, 1000000)

\* C21: for every feasible (S, E, delta_w, delta_f), the floor B recovered by
\* the inverse solve, fed with (E, delta_w, delta_f) to the Rubinstein
\* calculator, gives an equilibrium salary equal to S within 1e-6.
C21_InverseRoundTrip ==
    (calc.fn = "inverse" /\ calc.exc = "none")
        => LET back == compute_rubinstein_equilibrium(calc.value.B, CalcE,
                                                      CalcDeltaW, CalcDeltaF)
           IN  /\ back.exc = "none"
               /\ RLe(AbsR(RSub(back.value.salary_worker, calc.args[1])), Tolerance)

C21_Witness ==
    /\ calc.fn = "inverse"
    /\ calc.exc = "none"
    /\ calc.value.B[2] > 1
    /\ RLt(calc.args[1], CalcE)
    /\ CalcDeltaW # CalcDeltaF
    /\ compute_rubinstein_equilibrium(calc.value.B, CalcE, CalcDeltaW,
                                      CalcDeltaF).value.salary_worker = calc.args[1]

\* C22 as stated: a Rubinstein calculator fails with an error and returns no
\* result whenever B <= 0, E <= B or a discount factor is not strictly
\* between 0 and 1.
C22_InvalidParametersRejected ==
    (/\ calc.fn \in {"equilibrium", "salary"}
     /\ \/ RLe(CalcB, R(0))
        \/ RLe(CalcE, CalcB)
        \/ ~InOpenUnit(CalcDeltaW)
        \/ ~InOpenUnit(CalcDeltaF))
        => calc.exc = "ValueError" /\ calc.value = None

\* C23: the inverse solve fails, and stores no result, when S_target > E, when
\* the Rubinstein share v is within 1e-9 of 1, or when the recovered floor
\* B = (S_target - v E) / (1 - v) has B >= S_target or B <= 0; in every other
\* case with valid discount factors and positive S_target, E it returns that B.
C23_InverseInfeasible ==
    calc.fn = "inverse"
        => LET S == calc.args[1]
               failed == calc.exc = "ValueError" /\ calc.value = None /\ calc.stored = None
           IN  /\ RLt(CalcE, S) => failed
               /\ (/\ RLt(R(0), S) /\ RLt(R(0), CalcE)
                   /\ InOpenUnit(CalcDeltaW) /\ InOpenUnit(CalcDeltaF))
                    => LET v == RDiv(RSub(R(1), CalcDeltaF),
                                     RSub(R(1), RMul(CalcDeltaW, CalcDeltaF)))
                       IN  IF RLt(AbsR(RSub(R(1), v)), Frac(1, 1000000000))
                           THEN failed
                           ELSE LET B == RDiv(RSub(S, RMul(v, CalcE)), RSub(R(1), v))
                                IN  IF RLt(CalcE, S) \/ RLe(S, B) \/ RLe(B, R(0))
                                    THEN failed
                                    ELSE /\ calc.exc = "none"
                                         /\ calc.value.B = B
                                         /\ calc.stored = <<calc.value>>

\* A floor at or below zero, with an earlier result on the page.
C23_Witness ==
    /\ calc.fn = "inverse"
    /\ calc.prior # None
    /\ calc.exc = "ValueError"
    /\ calc.stored = None
    /\ InOpenUnit(CalcDeltaW) /\ InOpenUnit(CalcDeltaF)
    /\ RLt(R(0), calc.args[1]) /\ RLt(calc.args[1], CalcE)
    /\ RLe(recovered_floor(calc.args[1], CalcE, share_worker(CalcDeltaW, CalcDeltaF)), R(0))

(***************************************************************************)
(* Properties of the equilibrium path                                      *)
(***************************************************************************)
HasPath == game.phase = "path"
Game == game.self[1]
Path == game.path

\* C24 as stated: between consecutive rounds t-1 and t, if the proposer of
\* round t-1 is the worker then firmShare(t-1) = 1 - delta_w workerShare(t)
\* and workerShare(t-1) = 1 - firmShare(t-1); if it is the firm then
\* workerShare(t-1) = 1 - delta_f firmShare(t) and firmShare(t-1) = 1 - workerShare(t-1).
C24_Original_EarlierProposerDiscount ==
    HasPath =>
        \A i \in 1..(Len(Path) - 1) :
            LET earlier == Path[i]
                later == Path[i + 1]
            IN  /\ earlier.proposer = "employee"
                     => /\ earlier.W_r = RSub(R(1), RMul(Game.delta_e, later.W_e))
                        /\ earlier.W_e = RSub(R(1), earlier.W_r)
                /\ earlier.proposer = "employer"
                     => /\ earlier.W_e = RSub(R(1), RMul(Game.delta_r, later.W_r))
                        /\ earlier.W_r = RSub(R(1), earlier.W_e)

\* C24: between consecutive rounds t-1 and t, if the proposer of round t-1 is
\* the firm (the worker proposes in round t) then
\* firmShare(t-1) = 1 - delta_w workerShare(t) and
\* workerShare(t-1) = 1 - firmShare(t-1); if the proposer of round t-1 is the
\* worker (the firm proposes in round t) then
\* workerShare(t-1) = 1 - delta_f firmShare(t) and
\* firmShare(t-1) = 1 - workerShare(t-1).
C24_BackwardInduction ==
    HasPath =>
        \A i \in 1..(Len(Path) - 1) :
            LET earlier == Path[i]
                later == Path[i + 1]
            IN  /\ earlier.proposer = "employer"
                     => /\ later.proposer = "employee"
                        /\ earlier.W_r = RSub(R(1), RMul(Game.delta_e, later.W_e))
                        /\ earlier.W_e = RSub(R(1), earlier.W_r)
                /\ earlier.proposer = "employee"
                     => /\ later.proposer = "employer"
                        /\ earlier.W_e = RSub(R(1), RMul(Game.delta_r, later.W_r))
                        /\ earlier.W_r = RSub(R(1), earlier.W_e)

C24_Witness ==
    /\ HasPath
    /\ Len(Path) = 3
    /\ Game.delta_e # Game.delta_r
    /\ Path[3].proposer = "employee"
    /\ Path[2].proposer = "employer"
    /\ Path[2].W_e = RMul(Game.delta_e, Path[3].W_e)
    /\ Path[1].W_r = RMul(Game.delta_r, Path[2].W_r)
    /\ RLt(R(0), Path[3].W_e) /\ RLt(Path[3].W_e, R(1))

\* C25: compute_equilibrium_path returns exactly horizon + 1 rounds with round
\* offsets -horizon, ..., -1, 0 in ascending order; the round at offset 0 has
\* the given final proposer and worker share (S - B) / (E - B); proposers
\* strictly alternate between consecutive rounds.
C25_PathShape ==
    HasPath =>
        /\ Len(Path) = Game.horizon + 1
        /\ \A i \in 1..Len(Path) : Path[i].round_index = i - 1 - Game.horizon
        /\ Path[Len(Path)].proposer = game.last_mover
        /\ Path[Len(Path)].W_e = RDiv(RSub(Game.S, Game.B), RSub(Game.E, Game.B))
        /\ \A i \in 1..(Len(Path) - 1) : Path[i].proposer # Path[i + 1].proposer

C25_Witness ==
    /\ HasPath
    /\ Game.horizon = 3
    /\ Len(Path) = 4
    /\ game.last_mover = "employer"
    /\ Path[1].round_index = -3
    /\ Path[1].proposer = "employee"
    /\ Path[4].round_index = 0
    /\ Path[4].W_e = Half

(***************************************************************************)
(* Properties of the job-change scorer (SpecJob)                           *)
(***************************************************************************)
Scored == job.op \in {"compute_job_change", "form"} /\ job.ret # None
Score == job.ret[1]
JobArg == job.args[1]

\* C26: the verdict of a score is exactly one of Move, Stay, Indifferent and
\* Indeterminate, decided by the unrounded scores: Indeterminate if Wp or Wk
\* is not finite; otherwise Move iff Wk > Wp, Stay iff Wp > Wk, Indifferent
\* iff Wk = Wp; two scores that differ but print the same two decimals still
\* give Move or Stay.
C26_VerdictFromRawScores ==
    Scored =>
        /\ Score.decision \in {Move, Stay, Indifferent, Indeterminate}
        /\ Score.decision = Indeterminate <=> (~isfinite(Score.Wp) \/ ~isfinite(Score.Wk))
        /\ (isfinite(Score.Wp) /\ isfinite(Score.Wk)) =>
              /\ Score.decision = Move <=> RLt(Score.Wp, Score.Wk)
              /\ Score.decision = Stay <=> RLt(Score.Wk, Score.Wp)
              /\ Score.decision = Indifferent <=> Score.Wk = Score.Wp
              /\ (Score.Wp # Score.Wk /\ Score.Wp_str = Score.Wk_str) =>
                     Score.decision \in {Move, Stay}

C26_Witness ==
    /\ Scored
    /\ job.op = "compute_job_change"
    /\ Score.Wp = Frac(1027, 1000)
    /\ Score.Wk = Frac(103, 100)
    /\ Score.Wp_str = <<103>>
    /\ Score.Wk_str = <<103>>
    /\ Score.decision = Move

FailedRetrieval(name, res) == strip(name) = "" \/ res.kind # "object" \/ ~res.ok
ScorerArgsInDomain ==
    /\ JobArg.years >= 0
    /\ JobArg.salary > 0
    /\ JobArg.current_industry # ""
    /\ JobArg.target_industry # ""

\* C27: a missing or failed retrieval of company metrics (empty company name,
\* HTTP error status, transport failure, malformed or unexpected body, an
\* answer with ok = false) never raises out of fetch_corp_metrics or out of
\* compute_job_change: the metrics are the empty record, at least one
\* warning is carried, and the score uses the industry's growth instead.
C27_FailedRetrievalTolerated ==
    /\ (job.op = "fetch_corp_metrics"
        /\ FailedRetrieval(JobArg.current_corp, job.responses[1])) =>
           /\ job.exc = "none"
           /\ job.ret[1].metrics = EmptyMetrics
           /\ Len(job.ret[1].warnings) >= 1
    /\ (job.op = "compute_job_change" /\ ScorerArgsInDomain
        /\ FailedRetrieval(JobArg.current_corp, job.responses[1])) =>
           /\ job.exc = "none"
           /\ Score.now_metrics = EmptyMetrics
           /\ Len(Score.now_warnings) >= 1
           /\ Score.factor_now = RAdd(R(1), get_industry_growth(JobArg.current_industry))
    /\ (job.op = "compute_job_change" /\ ScorerArgsInDomain
        /\ FailedRetrieval(JobArg.next_corp, job.responses[2])) =>
           /\ job.exc = "none"
           /\ Score.next_metrics = EmptyMetrics
           /\ Len(Score.next_warnings) >= 1
           /\ Score.factor_next = RAdd(R(1), get_industry_growth(JobArg.target_industry))

BaseScore(industry) ==
    RMul(RDiv(R(JobArg.salary), R(100000000)),
         Pow(RAdd(R(1), IF industry \in DOMAIN INDUSTRY_GROWTH
                        THEN INDUSTRY_GROWTH[industry] ELSE Frac(3, 100)),
             JobArg.years))

\* C28: the base score is computed per side: Wp is (salary / 100,000,000) *
\* (1 + growth of the current industry) ^ years and Wk is (salary /
\* 100,000,000) * (1 + growth of the target industry) ^ years, each times
\* that side's company factor; an industry key the growth table does not
\* hold has growth 0.03.
C28_BaseScorePerSide ==
    (Scored /\ job.op = "compute_job_change") =>
        /\ Score.Wp = XMul(BaseScore(JobArg.current_industry), Score.factor_now)
        /\ Score.Wk = XMul(BaseScore(JobArg.target_industry), Score.factor_next)
        /\ Score.factor_now = company_factor(Score.now_metrics, Score.g_now_ind)[1]
        /\ Score.factor_next = company_factor(Score.next_metrics, Score.g_next_ind)[1]
        /\ JobArg.current_industry \notin DOMAIN INDUSTRY_GROWTH =>
               Score.g_now_ind = Frac(3, 100)
        /\ JobArg.target_industry \notin DOMAIN INDUSTRY_GROWTH =>
               Score.g_next_ind = Frac(3, 100)

\* C29: compute_job_change fails with ValueError when years < 0, salary <= 0
\* or an industry key is empty, before anything is computed: the metrics
\* provider is not called, no result is returned, and jc_result keeps what
\* it held.
C29_InvalidInputRejectedFirst ==
    (/\ job.op = "compute_job_change"
     /\ \/ JobArg.years < 0
        \/ JobArg.salary <= 0
        \/ JobArg.current_industry = ""
        \/ JobArg.target_industry = "") =>
        /\ job.exc = "ValueError"
        /\ job.calls = 0
        /\ job.ret = None
        /\ jc_result = job.prior

C29_Witness ==
    /\ job.op = "compute_job_change"
    /\ JobArg.years < 0
    /\ JobArg.salary > 0
    /\ JobArg.current_industry = "it"
    /\ JobArg.target_industry = "medical"
    /\ JobArg.current_corp = "A" /\ JobArg.next_corp = "B"
    /\ job.responses = <<FullAnswer, FullAnswer>>
    /\ job.exc = "ValueError"
    /\ job.calls = 0
    /\ job.ret = None
    /\ job.prior # None
    /\ jc_result = job.prior

(***************************************************************************)
(* Properties of the pages (SpecNav)                                       *)
(***************************************************************************)
StoredMove == jc_result # None /\ jc_result[1].decision = Move

\* C30: the negotiation pages are gated by the verdict: page p2 leads to p3
\* only by the button that exists while the stored result's decision is
\* Move, p4 and p5 are entered only from p3, and so in every reachable
\* state with page p3, p4 or p5 the stored result's decision is Move.
C30_NegotiationGated ==
    /\ [](page \in {"p3", "p4", "p5"} => StoredMove)
    /\ [][/\ (page = "p2" /\ page' # "p2") => (page' = "p3" /\ StoredMove)
          /\ (page' \in {"p4", "p5"} /\ page' # page) => page = "p3"]_vars

C30_Witness ==
    /\ page = "p5"
    /\ StoredMove
    /\ job.op = "form"

(***************************************************************************)
(* Properties of the recommendation of the projected game (SpecPath)       *)
(***************************************************************************)
HasRecommendation == game.phase = "recommended"
Query == game.query[1]
EmployeePath == compute_equilibrium_path(Game, "employee")
QueryInPath == Query.current_round_index \in (0 - Game.horizon)..0
SalaryAt(i) == RAdd(Game.B, RMul(RSub(Game.E, Game.B), EmployeePath[i].W_e))

\* C31: recommend_employee_offer returns B + pie * W_e of the path's round
\* that is the current round when the employee proposes now, and of the
\* nearest employee-proposing round at or after the current round when the
\* employer proposes now.
C31_RecommendNearestEmployeeTurn ==
    (HasRecommendation /\ QueryInPath) =>
        \E i \in 1..Len(EmployeePath) :
            /\ game.exc = "none"
            /\ game.ret = <<SalaryAt(i)>>
            /\ EmployeePath[i].round_index >= Query.current_round_index
            /\ Query.current_proposer = "employee" =>
                   EmployeePath[i].round_index = Query.current_round_index
            /\ Query.current_proposer = "employer" =>
                   /\ EmployeePath[i].proposer = "employee"
                   /\ \A j \in 1..Len(EmployeePath) :
                        (/\ EmployeePath[j].proposer = "employee"
                         /\ EmployeePath[j].round_index >= Query.current_round_index) =>
                            EmployeePath[j].round_index >= EmployeePath[i].round_index

(***************************************************************************)
(* Invariants and progress of the turn-based simulator                     *)
(***************************************************************************)
\* C32: in every reachable state of the simulator, status is "success" if
\* and only if final_salary is set, and then B <= final_salary <= E;
\* final_salary is the firm's offer that was shown and accepted, or a worker
\* proposal inside [B, E].
C32_SuccessHasFinalSalary ==
    HasSession =>
        /\ Cur.status = "success" <=> Cur.final_salary # None
        /\ Cur.final_salary # None =>
              /\ InClosedRange(Cur.B, Cur.final_salary, Cur.E)
              /\ \/ Cur.final_salary = Cur.last_employer_offer
                 \/ Cur.final_salary = Cur.last_employee_offer

C32_Witness ==
    /\ HasSession
    /\ Cur.status = "success"
    /\ Cur.last_employee_offer # None
    /\ RLt(Cur.E, Cur.last_employee_offer)
    /\ Cur.final_salary = Cur.last_employer_offer
    /\ Cur.current_round = 2

\* C33: in every reachable state of the simulator, status "ongoing" or
\* "success" implies 1 <= current_round <= max_rounds, status is "failed" if
\* and only if current_round = max_rounds + 1, and current_round never
\* exceeds max_rounds + 1.
C33_RoundWithinBudget ==
    HasSession =>
        /\ Cur.status \in {"ongoing", "success"} =>
              (1 <= Cur.current_round /\ Cur.current_round <= Cur.max_rounds)
        /\ Cur.status = "failed" <=> Cur.current_round = Cur.max_rounds + 1
        /\ Cur.current_round <= Cur.max_rounds + 1

C33_Witness ==
    /\ HasSession
    /\ Cur.status = "failed"
    /\ Cur.max_rounds = 2
    /\ Cur.current_round = 3
    /\ ev.op = "propose"

Ongoing == HasSession /\ Cur.status = "ongoing"
Terminal == HasSession /\ Cur.status \in {"success", "failed"}

\* C34: from an ongoing session every accept, reject and proposal either
\* ends the session or raises current_round by exactly one and hands the
\* turn to the other side; so an ongoing session has taken fewer than
\* max_rounds such actions, and a user who keeps acting reaches success or
\* failed.
C34_EveryActionProgresses ==
    /\ [][(Ongoing /\ ev'.op \in {"accept", "reject", "propose"}) =>
             /\ neg_state' # None
             /\ \/ neg_state'[1].status \in {"success", "failed"}
                \/ /\ neg_state'[1].current_round = Cur.current_round + 1
                   /\ neg_state'[1].turn # Cur.turn]_vars
    /\ [](Ongoing => Cur.current_round <= Cur.max_rounds)
    /\ (Ongoing ~> Terminal)

C34_Witness ==
    /\ Ongoing
    /\ ev.op = "reject"
    /\ Pre.status = "ongoing"
    /\ Pre.turn = "employer"
    /\ Cur.turn = "employee"
    /\ Cur.current_round = Pre.current_round + 1

(***************************************************************************)
(* Properties of the engine's round budget and suggestions                 *)
(***************************************************************************)
\* The worker-owned rounds among the first n rounds.
WorkerRounds(s, n) == {r \in 1..n : OwnerOf(s, r) = "employee"}

\* ceil(total_rounds / 2) when the worker moves first, floor(total_rounds / 2)
\* when the firm does.
WorkerTurns(s) ==
    IF s.first_mover = "employee" THEN (s.total_rounds + 1) \div 2 ELSE s.total_rounds \div 2

Recorded == eng_ev.op = "next" /\ EngCur.history_employee # EngPre.history_employee

\* C35: for an engine built with total_rounds >= 0, current_round stays
\* between 1 and total_rounds + 1; a worker offer is recorded only by
\* next_employee_offer, in a worker-owned round r <= total_rounds that no
\* earlier recorded offer used (r is at or after the round the call started
\* in, and the call leaves current_round at r + 1); so the recorded offers
\* number at most ceil(total_rounds / 2) when the worker moves first and
\* floor(total_rounds / 2) when the firm does.
C35_RoundBudget ==
    (model # None /\ EngCur.total_rounds >= 0) =>
        /\ 1 <= EngCur.current_round
        /\ EngCur.current_round <= EngCur.total_rounds + 1
        /\ eng_ev.op = "observe" => EngCur.history_employee = EngPre.history_employee
        /\ Recorded =>
             LET r == EngCur.current_round - 1
             IN  /\ EngCur.history_employee = Append(EngPre.history_employee, eng_ev.ret)
                 /\ EngPre.current_round <= r
                 /\ r <= EngCur.total_rounds
                 /\ OwnerOf(EngCur, r) = "employee"
        /\ Len(EngCur.history_employee)
             <= Cardinality(WorkerRounds(EngCur, EngCur.current_round - 1))
        /\ Len(EngCur.history_employee) <= WorkerTurns(EngCur)

\* The firm moves first in a negotiation of seven rounds: the third and last
\* worker offer is recorded in round 6, and the budget floor(7 / 2) is used up.
C35_Witness ==
    /\ Recorded
    /\ EngCur.first_mover = "employer"
    /\ EngCur.total_rounds = LongNegotiation
    /\ Len(EngCur.history_employee) = WorkerTurns(EngCur)
    /\ EngCur.current_round = EngCur.total_rounds

\* A call of next_employee_offer that stopped in a worker-owned round within
\* the budget, and so returned a computed suggestion.
Suggested == eng_ev.op = "next" /\ ReachedRound(EngPre) <= EngPre.total_rounds

\* C36: a suggestion computed in a worker-owned round lies between the last
\* observed firm offer (B if none) and S, both included; it is strictly below
\* S when B < S and the last firm offer is below S, and strictly below the
\* last firm offer when that offer is above S.
C36_SuggestionBetweenOfferAndTarget ==
    Suggested =>
        LET last == LastFirmOffer(EngCur)
            S == EngCur.S_target
        IN  /\ RLe(RMin(last, S), eng_ev.ret)
            /\ RLe(eng_ev.ret, RMax(last, S))
            /\ (RLt(EngCur.B, S) /\ RLt(last, S)) => RLt(eng_ev.ret, S)
            /\ RLt(S, last) => RLt(eng_ev.ret, last)

\* A firm offer above the ceiling: the suggestion is clamped to E_max, which
\* is above S and below the offer.
C36_Witness ==
    /\ Suggested
    /\ eng_ev.args # None
    /\ RLt(EngCur.E_max, eng_ev.args[1])
    /\ RLt(EngCur.S_target, eng_ev.ret)
    /\ eng_ev.ret = EngCur.E_max
    /\ EngCur.history_employee = Append(EngPre.history_employee, eng_ev.ret)

\* Firm offers an engine may have observed before its most recent one.
OlderOffers == {<<R(8000)>>, <<R(3500), R(8000)>>}

\* Engines that differ from s only in delta_R, only in delta_E_hat, or in
\* both and in the firm offers before the most recent one; when the call
\* itself brings the most recent offer, every offer stored so far is an older
\* one.
Variants(s, employer_offer) ==
    LET h == s.history_employer
        histories == IF employer_offer # None THEN OlderOffers
                     ELSE IF h = <<>> THEN {h}
                     ELSE {Append(older, h[Len(h)]) : older \in OlderOffers}
    IN  {[s EXCEPT !.delta_R = Half], [s EXCEPT !.delta_E_hat = Half]}
            \cup {[s EXCEPT !.delta_R = Half, !.delta_E_hat = Half,
                            !.history_employer = hist] : hist \in histories}

\* C37: observe_employer_offer changes only history_employer, delta_R and
\* delta_E_hat; and the value next_employee_offer returns is the same for
\* every engine that differs from the called one only in delta_R, in
\* delta_E_hat and in firm offers other than the most recent.
C37_EstimatesDoNotSteer ==
    /\ eng_ev.op = "observe"
         => EngCur = [EngPre EXCEPT !.history_employer = EngCur.history_employer,
                                    !.delta_R = EngCur.delta_R,
                                    !.delta_E_hat = EngCur.delta_E_hat]
    /\ eng_ev.op = "next"
         => \A other \in Variants(EngPre, eng_ev.args) :
                next_employee_offer(other, eng_ev.args)[2] = eng_ev.ret

\* After two observed offers the estimates have moved away from delta_E, and
\* the suggestion is computed from the second offer alone.
C37_Witness ==
    /\ Suggested
    /\ eng_ev.args = None
    /\ Len(EngPre.history_employer) = 2
    /\ EngPre.history_employer[1] # EngPre.history_employer[2]
    /\ EngPre.delta_E_hat # EngPre.delta_E
    /\ EngPre.delta_R # Frac(95, 100)
    /\ RLt(EngPre.history_employer[2], eng_ev.ret)
    /\ RLt(eng_ev.ret, EngPre.S_target)
    /\ Cardinality(Variants(EngPre, eng_ev.args)) > 1

InUnit(x) == RLe(R(0), x) /\ RLe(x, R(1))

\* C39: a game is accepted only with B < S <= E and both discount factors
\* in (0, 1]; in every round of its path W_e + W_r = 1 with both shares in
\* [0, 1]; and between consecutive rounds the responder of the earlier round,
\* who proposes in the later one, receives in the earlier round its own
\* discount factor times its share of the later round.
C39_ResponderDiscountedShare ==
    HasPath =>
        /\ RLt(Game.B, Game.S) /\ RLe(Game.S, Game.E)
        /\ RLt(R(0), Game.delta_e) /\ RLe(Game.delta_e, R(1))
        /\ RLt(R(0), Game.delta_r) /\ RLe(Game.delta_r, R(1))
        /\ \A i \in 1..Len(Path) :
             /\ RAdd(Path[i].W_e, Path[i].W_r) = R(1)
             /\ InUnit(Path[i].W_e)
             /\ InUnit(Path[i].W_r)
        /\ \A i \in 1..(Len(Path) - 1) :
             IF Path[i + 1].proposer = "employee"
             THEN /\ Path[i].proposer = "employer"
                  /\ Path[i].W_e = RMul(Game.delta_e, Path[i + 1].W_e)
             ELSE /\ Path[i].proposer = "employee"
                  /\ Path[i].W_r = RMul(Game.delta_r, Path[i + 1].W_r)

\* Four rounds ending with the firm's proposal, the sides' discount factors
\* different and below 1: the firm and then the worker respond for a
\* discounted share.
C39_Witness ==
    /\ HasPath
    /\ Len(Path) = 4
    /\ game.last_mover = "employer"
    /\ Game.delta_e # Game.delta_r
    /\ RLt(Game.delta_e, R(1)) /\ RLt(Game.delta_r, R(1))
    /\ RLt(Game.S, Game.E)
    /\ Path[3].W_r = RMul(Game.delta_r, Path[4].W_r)
    /\ Path[2].W_e = RMul(Game.delta_e, Path[3].W_e)
    /\ RLt(Path[2].W_e, Path[3].W_e)

(***************************************************************************)
(* Properties of the stored job-change result (SpecJob)                    *)
(***************************************************************************)
FormSubmitted == job.op \in {"form", "form_refused"}
FormFailed == job.op = "form_refused" \/ (job.op = "form" /\ job.exc # "none")

\* C40: a submission of the p2 form that fails, by a missing company name or
\* by any error raised during the evaluation, leaves jc_result as it was, and
\* with it the verdict, the scores and whether the Move button is drawn;
\* jc_result changes only when the evaluation returns, to the value returned.
C40_FailedEvaluationKeepsResult ==
    FormSubmitted =>
        /\ FormFailed =>
             /\ jc_result = job.prior
             /\ move_button(jc_result) = move_button(job.prior)
        /\ ~FormFailed => (job.ret # None /\ jc_result = job.ret)
        /\ jc_result # job.prior => (job.op = "form" /\ job.exc = "none")

\* The evaluation raises under an earlier result whose verdict is Move: the
\* result stays, and the button with it.
C40_Witness ==
    /\ job.op = "form"
    /\ job.exc # "none"
    /\ job.calls > 0
    /\ job.prior # None
    /\ jc_result = job.prior
    /\ move_button(jc_result)

====
